---- MODULE Spec2Model ----
(***************************************************************************)
(* pyLocalEngine: the locale engine (localengine/core/engine.py), its      *)
(* cache store and source resolver (localengine/core/file_manager.py) and  *)
(* the fallback table (localengine/core/locale_detector.py).               *)
(*                                                                         *)
(* A locale tag is the sequence of its tokens, "en-US" being               *)
(* <<"en", "-", "US">>, so that split("-") and the "-" test are computed.  *)
(* A translation key is the sequence of its dot-separated segments.        *)
(* A Python value is a record [kind, text, kids]: None, a str, a bool or a *)
(* dict whose kids maps each key to a value.                               *)
(***************************************************************************)
EXTENDS Naturals, Integers, Sequences, FiniteSets, TLC

\* ------------------------------------------------------------------ bounds
\* The clock runs from 0 to MaxTime.
MaxTime == 2
\* At most MaxCallbacks registrations are held at once.
MaxCallbacks == 2
\* The longest key, in tokens: a name or a dot each ("a.b.c" has five).
MaxKeyLen == 5
\* One call loads at most MaxLoads fallback locales after its first load.
MaxLoads == 1
\* Calls made from inside a callback nest at most MaxNesting deep.
MaxNesting == 1

\* ------------------------------------------------------------------- tags
Dash == "-"
Tag(lang, country) == <<lang, Dash, country>>
NoneTag == <<"None">>
En == <<"en">>
EnUS == Tag("en", "US")
EnGB == Tag("en", "GB")
EsES == Tag("es", "ES")
EsMX == Tag("es", "MX")

InSeq(x, s) == \E i \in 1..Len(s) : s[i] = x

\* F(x), with x computed once (a local variable of the code).
Let(x, F(_)) == CHOOSE v \in {F(y) : y \in {x}} : TRUE

\* "-" in primary_locale
HasDash(t) == InSeq(Dash, t)

\* primary_locale.split("-")[0]
RECURSIVE SplitFirst(_)
SplitFirst(t) ==
    IF t = <<>> \/ Head(t) = Dash THEN <<>>
    ELSE <<Head(t)>> \o SplitFirst(Tail(t))

\* the common_variants table of get_fallback_locales
common_variants ==
    [en |-> <<Tag("en", "US"), Tag("en", "GB")>>,
     es |-> <<Tag("es", "ES"), Tag("es", "MX")>>,
     fr |-> <<Tag("fr", "FR"), Tag("fr", "CA")>>,
     de |-> <<Tag("de", "DE"), Tag("de", "AT")>>,
     pt |-> <<Tag("pt", "PT"), Tag("pt", "BR")>>,
     zh |-> <<Tag("zh", "CN"), Tag("zh", "TW")>>]

\* the loop over common_variants[language]
RECURSIVE AppendVariants(_, _, _)
AppendVariants(fallbacks, variants, primary_locale) ==
    IF variants = <<>> THEN fallbacks
    ELSE LET variant == Head(variants)
             next == IF variant # primary_locale /\ ~InSeq(variant, fallbacks)
                     THEN Append(fallbacks, variant)
                     ELSE fallbacks
         IN AppendVariants(next, Tail(variants), primary_locale)

\* get_fallback_locales without its two English entries.
get_fallback_locales_without_english(primary_locale) ==
    LET language == SplitFirst(primary_locale)
    IN IF HasDash(primary_locale)
       THEN IF Len(language) = 1 /\ language[1] \in DOMAIN common_variants
            THEN AppendVariants(<<language>>, common_variants[language[1]], primary_locale)
            ELSE <<language>>
       ELSE <<>>

\* LocaleDetector.get_fallback_locales
get_fallback_locales(primary_locale) ==
    LET language == SplitFirst(primary_locale)
        f1 == IF HasDash(primary_locale)
              THEN IF Len(language) = 1 /\ language[1] \in DOMAIN common_variants
                   THEN AppendVariants(<<language>>, common_variants[language[1]],
                                       primary_locale)
                   ELSE <<language>>
              ELSE <<>>
        f2 == IF ~InSeq(EnUS, f1) /\ primary_locale # EnUS
              THEN Append(f1, EnUS) ELSE f1
        f3 == IF ~InSeq(En, f2) /\ primary_locale # En
              THEN Append(f2, En) ELSE f2
    IN f3

\* _get_fallback_locales appending the default locale without its two tests.
_get_fallback_locales_always_appends(default_loc, locale) ==
    Append(get_fallback_locales(locale), default_loc)

\* LocalEngine._get_fallback_locales, for an engine configured with default_loc
_get_fallback_locales(default_loc, locale) ==
    LET fallbacks == get_fallback_locales(locale)
    IN IF ~InSeq(default_loc, fallbacks) /\ default_loc # locale
       THEN Append(fallbacks, default_loc)
       ELSE fallbacks

\* ----------------------------------------------------------------- values
NoKids == <<>>
None == [kind |-> "none", text |-> "", kids |-> NoKids]
Str(s) == [kind |-> "str", text |-> s, kids |-> NoKids]
Dict(m) == [kind |-> "dict", text |-> "", kids |-> m]
PyBool(b) == [kind |-> "bool", text |-> IF b THEN "True" ELSE "False", kids |-> NoKids]

\* str(value): a str is itself, a dict is printed with its items
PyStr(v) == IF v.kind = "str" THEN v ELSE [kind |-> "str", text |-> "repr", kids |-> v.kids]

\* ---------------------------------------------------- keys and documents
KeyGreeting == <<"greeting">>
KeyFarewell == <<"farewell">>
KeyNestedMessage == <<"nested", "message">>
Keys == {KeyGreeting, KeyNestedMessage}

\* Two locale documents (the fixtures of tests/test_localengine.py, cut down):
\* DocA has every key of Keys, DocB has only greeting, and nested is a leaf.
DocA == Dict([meta |-> Dict([version |-> Str("1.0.0")]),
              greeting |-> Str("Hello"),
              farewell |-> Str("Goodbye"),
              nested |-> Dict([message |-> Str("Nested message")])])
DocB == Dict([meta |-> Dict([version |-> Str("2.0.0")]),
              greeting |-> Str("Hola"),
              nested |-> Str("leaf")])
Docs == {DocA, DocB}

\* What a file holds: text that parses to a document, or text that does not parse.
TextOf(d) == [kind |-> "text", parsesTo |-> d]
Malformed == [kind |-> "malformed", parsesTo |-> None]
Contents == {TextOf(d) : d \in Docs} \cup {Malformed}
\* What requests.get meets at a URL instead of a body: a response whose status
\* raise_for_status() rejects, no connection, or no answer within the timeout.
HttpStatusError == [kind |-> "status", parsesTo |-> None]
ConnectionFault == [kind |-> "connection", parsesTo |-> None]
TimeoutFault == [kind |-> "timeout", parsesTo |-> None]

\* ------------------------------------------------------------- exceptions
NoPath == [locale |-> NoneTag, dir |-> FALSE, name |-> <<>>, ext |-> ""]
NoExc == [type |-> "", locale |-> NoneTag, key |-> <<>>, path |-> NoPath]
LocaleNotFoundError(locale) ==
    [type |-> "LocaleNotFoundError", locale |-> locale, key |-> <<>>, path |-> NoPath]
LocaleFileError(file_path) ==
    [type |-> "LocaleFileError", locale |-> NoneTag, key |-> <<>>, path |-> file_path]
TranslationKeyError(key, locale) ==
    [type |-> "TranslationKeyError", locale |-> locale, key |-> key, path |-> NoPath]
FileNotFoundError == 
    [type |-> "FileNotFoundError", locale |-> NoneTag, key |-> <<>>, path |-> NoPath]
\* requests.exceptions: HTTPError, ConnectionError and Timeout are each a
\* RequestException.
HTTPError == [type |-> "HTTPError", locale |-> NoneTag, key |-> <<>>, path |-> NoPath]
ConnectionError ==
    [type |-> "ConnectionError", locale |-> NoneTag, key |-> <<>>, path |-> NoPath]
Timeout == [type |-> "Timeout", locale |-> NoneTag, key |-> <<>>, path |-> NoPath]
IsRequestException(e) == e.type \in {"HTTPError", "ConnectionError", "Timeout"}

\* How a call ends: it returns a value or raises an exception.
Return(v) == [kind |-> "return", value |-> v, exc |-> NoExc]
Raise(e) == [kind |-> "raise", value |-> None, exc |-> e]

\* ------------------------------------------------------------------ state
VARIABLES
    files,              \* the locale store: path -> content, for the files that exist
    now,                \* time.time()
    phase,              \* "new" before LocalEngine(...) returned, then "running"
    default_locale,     \* LocalEngine.default_locale
    cache_timeout,      \* FileManager.cache_timeout
    _cache,             \* FileManager._cache
    _cache_timestamps,  \* FileManager._cache_timestamps
    _current_locale,    \* LocalEngine._current_locale
    _fallback_locales,  \* LocalEngine._fallback_locales
    _change_callbacks,  \* LocalEngine._change_callbacks
    result,             \* the last call: its name, its arguments, how it ended
    notified,           \* the callback invocations the last call made, in order
    resolved,           \* the locales the last call ran _load_from_source for, in order
    tried,              \* the candidate paths the last call tried, in order
    _is_remote,         \* FileManager._is_remote
    check_updates_interval, \* LocalEngine.check_updates_interval
    _stop_update_thread,    \* LocalEngine._stop_update_thread: the event is set
    _update_thread,     \* LocalEngine._update_thread: where the thread is in its loop
    _lock,              \* FileManager._lock: the thread that holds it
    stopper,            \* where the thread that called stop() is in it
    fetcher,            \* the load_locale_file call that is reading the source
    engine_lock,        \* LocalEngine._lock: the thread that holds it
    pc                  \* thread -> what it has still to do of the call it is in

envVars == <<files, now>>
configVars == <<phase, default_locale, cache_timeout, _is_remote, check_updates_interval>>
cacheVars == <<_cache, _cache_timestamps>>
engineVars == <<_current_locale, _fallback_locales>>
callVars == <<result, notified, resolved, tried>>
threadVars == <<_stop_update_thread, _update_thread, _lock, stopper, fetcher, engine_lock, pc>>
vars == <<files, now, phase, default_locale, cache_timeout, _cache, _cache_timestamps,
          _current_locale, _fallback_locales, _change_callbacks, result, notified,
          resolved, tried, _is_remote, check_updates_interval, _stop_update_thread,
          _update_thread, _lock, stopper, fetcher, engine_lock, pc>>

\* ------------------------------------------------------- source resolver
Exts == <<"json", "yaml", "yml", "xml">>
Path(locale, dir, name, ext) == [locale |-> locale, dir |-> dir, name |-> name, ext |-> ext]

\* _get_possible_file_paths with the two loops of its second part exchanged:
\* for each file name, each extension.
_get_possible_file_paths_by_name(locale) ==
    LET filenames == <<locale, <<"locale">>, <<"translations">>>>
        method1 == [i \in 1..Len(Exts) |-> Path(locale, FALSE, locale, Exts[i])]
        method2 == [j \in 1..(Len(Exts) * Len(filenames)) |->
                      Path(locale, TRUE,
                           filenames[((j - 1) \div Len(Exts)) + 1],
                           Exts[((j - 1) % Len(Exts)) + 1])]
    IN method1 \o method2

\* FileManager._get_possible_file_paths
_get_possible_file_paths(locale) ==
    LET filenames == <<locale, <<"locale">>, <<"translations">>>>
        method1 == [i \in 1..Len(Exts) |-> Path(locale, FALSE, locale, Exts[i])]
        method2 == [j \in 1..(Len(Exts) * Len(filenames)) |->
                      Path(locale, TRUE,
                           filenames[((j - 1) % Len(filenames)) + 1],
                           Exts[((j - 1) \div Len(filenames)) + 1])]
    IN method1 \o method2

\* ET.fromstring: the Element of a node of XML text.  Its text is None when
\* the node has no character data, and its children are in document order.
RECURSIVE fromstring(_)
fromstring(node) ==
    [tag |-> node.tag,
     text |-> IF node.text = "" THEN None ELSE Str(node.text),
     kids |-> [i \in DOMAIN node.kids |-> fromstring(node.kids[i])]]

\* FileManager._parse_xml, on the root Element.  A later element of the same
\* tag overwrites an earlier one; an element with sub-elements becomes a dict
\* of the texts of its sub-elements, any other element its own text.
_parse_xml(root) ==
    LET Last(elems, tag) ==
            elems[CHOOSE i \in DOMAIN elems :
                    /\ elems[i].tag = tag
                    /\ \A j \in DOMAIN elems : elems[j].tag = tag => j <= i]
        Texts(elems) ==
            [tag \in {elems[i].tag : i \in DOMAIN elems} |-> Last(elems, tag).text]
        Entries(elems) ==
            [tag \in {elems[i].tag : i \in DOMAIN elems} |->
               IF Len(Last(elems, tag).kids) > 0
               THEN Dict(Texts(Last(elems, tag).kids))
               ELSE Last(elems, tag).text]
        Find(tag) == SelectSeq(root.kids, LAMBDA e : e.tag = tag)
        meta == IF Find("meta") # <<>>
                THEN [k \in {"meta"} |-> Dict(Texts(Find("meta")[1].kids))]
                ELSE <<>>
        entries == IF Find("locale") # <<>>
                   THEN Entries(Find("locale")[1].kids)
                   ELSE Entries(SelectSeq(root.kids, LAMBDA e : e.tag # "meta"))
    IN Dict([k \in DOMAIN meta \cup DOMAIN entries |->
               IF k \in DOMAIN entries THEN entries[k] ELSE meta[k]])

\* FileManager._parse_content: the document, or the parse fault.  A text is
\* JSON or YAML text, known by the value json.loads or yaml.safe_load gives
\* for it, or XML text, known by its nodes; yaml.safe_load reads XML text as
\* one scalar, and "or {}" turns an empty YAML result into an empty dict.
_parse_content(content, file_ext) ==
    IF ~InSeq(file_ext, Exts) THEN Raise(LocaleFileError(NoPath))
    ELSE IF content.kind = "malformed" THEN Raise(LocaleFileError(NoPath))
    ELSE IF content.kind = "xml"
         THEN IF file_ext = "xml" THEN Return(_parse_xml(fromstring(content.parsesTo)))
              ELSE IF file_ext = "json" THEN Raise(LocaleFileError(NoPath))
              ELSE Return(Str("xml text"))
    ELSE IF file_ext \in {"yaml", "yml"} /\ content.parsesTo \in {None, Dict(NoKids)}
         THEN Return(Dict(NoKids))
    ELSE Return(content.parsesTo)

\* FileManager._load_local_file
_load_local_file(file_path) ==
    IF file_path \notin DOMAIN files THEN Raise(FileNotFoundError)
    ELSE _parse_content(files[file_path], file_path.ext)

\* FileManager._load_remote_file: under a remote base the store is what the
\* server answers; a URL it does not have is answered with a 404.
_load_remote_file(url) ==
    IF url \notin DOMAIN files THEN Raise(HTTPError)
    ELSE IF files[url].kind = "status" THEN Raise(HTTPError)
    ELSE IF files[url].kind = "connection" THEN Raise(ConnectionError)
    ELSE IF files[url].kind = "timeout" THEN Raise(Timeout)
    ELSE _parse_content(files[url], url.ext)

\* The loop with a parse fault handled like an absent file: the next candidate
\* is tried.
RECURSIVE ReadFromPathsSkippingFaults(_, _, _)
ReadFromPathsSkippingFaults(file_paths, locale, seen) ==
    IF file_paths = <<>>
    THEN [ret |-> Raise(LocaleNotFoundError(locale)), tried |-> seen]
    ELSE LET file_path == Head(file_paths)
             r == IF _is_remote THEN _load_remote_file(file_path)
                  ELSE _load_local_file(file_path)
         IN IF r.kind = "return" THEN [ret |-> r, tried |-> Append(seen, file_path)]
            ELSE ReadFromPathsSkippingFaults(Tail(file_paths), locale,
                                             Append(seen, file_path))

\* FileManager._load_from_source: the loop over file_paths.  It ends with what
\* the method returns or raises and the candidates it tried, in order.
RECURSIVE ReadFromPaths(_, _, _)
ReadFromPaths(file_paths, locale, seen) ==
    IF file_paths = <<>>
    THEN [ret |-> Raise(LocaleNotFoundError(locale)), tried |-> seen]
    ELSE LET file_path == Head(file_paths)
             r == IF _is_remote THEN _load_remote_file(file_path)
                  ELSE _load_local_file(file_path)
         IN IF r.kind = "return" THEN [ret |-> r, tried |-> Append(seen, file_path)]
            ELSE IF r.exc.type = "FileNotFoundError" \/ IsRequestException(r.exc)
                 THEN ReadFromPaths(Tail(file_paths), locale, Append(seen, file_path))
                 ELSE [ret |-> Raise(LocaleFileError(file_path)),
                       tried |-> Append(seen, file_path)]

LoadFromPaths(file_paths, locale) == ReadFromPaths(file_paths, locale, <<>>).ret

_load_from_source(locale) == LoadFromPaths(_get_possible_file_paths(locale), locale)

\* ------------------------------------------------------------ cache store
\* The cache as a call sees and leaves it: the two maps, the log of the source
\* resolutions made so far in the call, and the candidates they tried.
FM(cache, timestamps, log, seen) ==
    [cache |-> cache, ts |-> timestamps, log |-> log, tried |-> seen]
FM0 == FM(_cache, _cache_timestamps, <<>>, <<>>)

Put(map, k, v) == [l \in (DOMAIN map) \cup {k} |-> IF l = k THEN v ELSE map[l]]
Pop(map, k) == [l \in (DOMAIN map) \ {k} |-> map[l]]
EmptyMap == <<>>

\* _is_cache_valid with age <= cache_timeout: an entry is served at age TTL too.
_is_cache_valid_inclusive(fm, locale) ==
    IF locale \notin DOMAIN fm.cache \/ locale \notin DOMAIN fm.ts THEN FALSE
    ELSE LET age == now - fm.ts[locale]
         IN age <= cache_timeout

\* FileManager._is_cache_valid
_is_cache_valid(fm, locale) ==
    IF locale \notin DOMAIN fm.cache \/ locale \notin DOMAIN fm.ts THEN FALSE
    ELSE LET age == now - fm.ts[locale]
         IN age < cache_timeout

\* load_locale_file that returns what it read and stores an empty document.
load_locale_file_stores_empty(fm, locale, force_reload) ==
    IF ~force_reload /\ _is_cache_valid(fm, locale)
    THEN [ret |-> Return(fm.cache[locale]), fm |-> fm]
    ELSE Let(ReadFromPaths(_get_possible_file_paths(locale), locale, <<>>), LAMBDA r :
           IF r.ret.kind = "raise"
           THEN [ret |-> r.ret,
                 fm |-> FM(fm.cache, fm.ts, Append(fm.log, locale), fm.tried \o r.tried)]
           ELSE [ret |-> r.ret,
                 fm |-> FM(Put(fm.cache, locale, Dict(<<>>)), Put(fm.ts, locale, now),
                           Append(fm.log, locale), fm.tried \o r.tried)])

\* load_locale_file that drops the entry of a locale whose source fails.
load_locale_file_evicts_on_failure(fm, locale, force_reload) ==
    IF ~force_reload /\ _is_cache_valid(fm, locale)
    THEN [ret |-> Return(fm.cache[locale]), fm |-> fm]
    ELSE Let(ReadFromPaths(_get_possible_file_paths(locale), locale, <<>>), LAMBDA r :
           IF r.ret.kind = "raise"
           THEN [ret |-> r.ret,
                 fm |-> FM([l \in DOMAIN fm.cache \ {locale} |-> fm.cache[l]],
                           [l \in DOMAIN fm.ts \ {locale} |-> fm.ts[l]],
                           Append(fm.log, locale), fm.tried \o r.tried)]
           ELSE [ret |-> r.ret,
                 fm |-> FM(Put(fm.cache, locale, r.ret.value), Put(fm.ts, locale, now),
                           Append(fm.log, locale), fm.tried \o r.tried)])

\* FileManager.load_locale_file: how it ends, and the cache it leaves
load_locale_file(fm, locale, force_reload) ==
    IF ~force_reload /\ _is_cache_valid(fm, locale)
    THEN [ret |-> Return(fm.cache[locale]), fm |-> fm]
    ELSE Let(ReadFromPaths(_get_possible_file_paths(locale), locale, <<>>), LAMBDA r :
           IF r.ret.kind = "raise"
           THEN [ret |-> r.ret,
                 fm |-> FM(fm.cache, fm.ts, Append(fm.log, locale), fm.tried \o r.tried)]
           ELSE [ret |-> r.ret,
                 fm |-> FM(Put(fm.cache, locale, r.ret.value), Put(fm.ts, locale, now),
                           Append(fm.log, locale), fm.tried \o r.tried)])

\* is_locale_cached looking only for the entry, whatever its age.
is_locale_cached_ignores_age(fm, locale) == locale \in DOMAIN fm.cache

\* FileManager.is_locale_cached
is_locale_cached(fm, locale) == _is_cache_valid(fm, locale)

\* clear_cache that empties both maps whatever locale it is given.
clear_cache_drops_all(fm, locale) == FM(EmptyMap, EmptyMap, fm.log, fm.tried)

\* FileManager.clear_cache
clear_cache(fm, locale) ==
    IF locale # NoneTag
    THEN FM(Pop(fm.cache, locale), Pop(fm.ts, locale), fm.log, fm.tried)
    ELSE FM(EmptyMap, EmptyMap, fm.log, fm.tried)

\* ----------------------------------------------------------- locale engine
\* A registered callback either returns or raises an Exception when invoked.
CallbackOk == "callback_ok"
CallbackRaises == "callback_raises"
Callbacks == {CallbackOk, CallbackRaises}
CallbackError == [type |-> "Exception", locale |-> NoneTag, key |-> <<>>, path |-> NoPath]

\* callback(old_locale, new_locale)
Invoke(callback, old_locale, new_locale) ==
    IF callback = CallbackRaises THEN Raise(CallbackError) ELSE Return(None)
Invocation(callback, old_locale, new_locale) ==
    [callback |-> callback, old |-> old_locale, new |-> new_locale]

\* _notify_locale_change without its try/except: the first callback that raises
\* ends the loop and the exception leaves the method.
RECURSIVE _notify_locale_change_unguarded(_, _, _)
_notify_locale_change_unguarded(callbacks, old_locale, new_locale) ==
    IF callbacks = <<>> THEN [log |-> <<>>, ret |-> Return(None)]
    ELSE Let(Invoke(Head(callbacks), old_locale, new_locale), LAMBDA r :
           IF r.kind = "raise"
           THEN [log |-> <<Invocation(Head(callbacks), old_locale, new_locale)>>, ret |-> r]
           ELSE Let(_notify_locale_change_unguarded(Tail(callbacks), old_locale, new_locale),
                    LAMBDA rest :
                      [log |-> <<Invocation(Head(callbacks), old_locale, new_locale)>>
                                 \o rest.log,
                       ret |-> rest.ret]))

\* LocalEngine._notify_locale_change: the invocations made, and how it ends
RECURSIVE _notify_locale_change(_, _, _)
_notify_locale_change(callbacks, old_locale, new_locale) ==
    IF callbacks = <<>> THEN [log |-> <<>>, ret |-> Return(None)]
    ELSE LET callback == Head(callbacks)
             r == Invoke(callback, old_locale, new_locale)
             rest == _notify_locale_change(Tail(callbacks), old_locale, new_locale)
         IN \* except Exception: pass
            [log |-> <<Invocation(callback, old_locale, new_locale)>> \o rest.log,
             ret |-> rest.ret]

\* What a call of the engine leaves: how it ends, the engine state, the cache,
\* and the callback invocations it made.
Outcome(ret, cur, fb, fm, log) ==
    [ret |-> ret, cur |-> cur, fb |-> fb, fm |-> fm, notified |-> log]

\* The commit without the test old_locale != locale: every commit notifies.
CommitLocaleAlwaysNotifies(new_locale, old_locale, fm) ==
    Let(_notify_locale_change(_change_callbacks, old_locale, new_locale),
        LAMBDA n : Outcome(n.ret, new_locale,
                           _get_fallback_locales(default_locale, new_locale), fm, n.log))

\* set_locale, once load_locale_file(new_locale) has returned: the commit under
\* the lock, and the notification when the locale changed
CommitLocale(new_locale, old_locale, fm) ==
    Let(IF old_locale # new_locale
        THEN _notify_locale_change(_change_callbacks, old_locale, new_locale)
        ELSE [log |-> <<>>, ret |-> Return(None)],
        LAMBDA n : Outcome(n.ret, new_locale,
                           _get_fallback_locales(default_locale, new_locale), fm, n.log))

\* The loop over the fallbacks, notifying with the requested locale instead of
\* the fallback that was committed.
RECURSIVE TryFallbacksNotifiesRequested(_, _, _, _)
TryFallbacksNotifiesRequested(fallbacks, locale, old_locale, fm) ==
    IF fallbacks = <<>>
    THEN Outcome(Raise(LocaleNotFoundError(locale)), _current_locale, _fallback_locales,
                 fm, <<>>)
    ELSE Let(load_locale_file(fm, Head(fallbacks), FALSE), LAMBDA l :
           IF l.ret.kind = "return"
           THEN Let(CommitLocale(Head(fallbacks), old_locale, l.fm), LAMBDA o :
                  Outcome(o.ret, o.cur, o.fb, o.fm,
                          [i \in DOMAIN o.notified |->
                             Invocation(o.notified[i].callback, old_locale, locale)]))
           ELSE IF l.ret.exc.type = "LocaleNotFoundError"
                THEN TryFallbacksNotifiesRequested(Tail(fallbacks), locale, old_locale, l.fm)
                ELSE Outcome(l.ret, _current_locale, _fallback_locales, l.fm, <<>>))

\* The loop committing a fallback with the chain of the requested locale.
RECURSIVE TryFallbacksRequestedChain(_, _, _, _)
TryFallbacksRequestedChain(fallbacks, locale, old_locale, fm) ==
    IF fallbacks = <<>>
    THEN Outcome(Raise(LocaleNotFoundError(locale)), _current_locale, _fallback_locales,
                 fm, <<>>)
    ELSE Let(load_locale_file(fm, Head(fallbacks), FALSE), LAMBDA l :
           IF l.ret.kind = "return"
           THEN Let(CommitLocale(Head(fallbacks), old_locale, l.fm), LAMBDA o :
                  Outcome(o.ret, o.cur, _get_fallback_locales(default_locale, locale),
                          o.fm, o.notified))
           ELSE IF l.ret.exc.type = "LocaleNotFoundError"
                THEN TryFallbacksRequestedChain(Tail(fallbacks), locale, old_locale, l.fm)
                ELSE Outcome(l.ret, _current_locale, _fallback_locales, l.fm, <<>>))

\* The loop going on to the next fallback after any error of a load.
RECURSIVE TryFallbacksSkipsMalformed(_, _, _, _)
TryFallbacksSkipsMalformed(fallbacks, locale, old_locale, fm) ==
    IF fallbacks = <<>>
    THEN Outcome(Raise(LocaleNotFoundError(locale)), _current_locale, _fallback_locales,
                 fm, <<>>)
    ELSE Let(load_locale_file(fm, Head(fallbacks), FALSE), LAMBDA l :
           IF l.ret.kind = "return" THEN CommitLocale(Head(fallbacks), old_locale, l.fm)
           ELSE TryFallbacksSkipsMalformed(Tail(fallbacks), locale, old_locale, l.fm))

\* set_locale: the loop over the fallbacks, after LocaleNotFoundError for locale
RECURSIVE TryFallbacks(_, _, _, _)
TryFallbacks(fallbacks, locale, old_locale, fm) ==
    IF fallbacks = <<>>
    THEN Outcome(Raise(LocaleNotFoundError(locale)), _current_locale, _fallback_locales,
                 fm, <<>>)
    ELSE Let(load_locale_file(fm, Head(fallbacks), FALSE), LAMBDA l :
           IF l.ret.kind = "return" THEN CommitLocale(Head(fallbacks), old_locale, l.fm)
           ELSE IF l.ret.exc.type = "LocaleNotFoundError"
                THEN TryFallbacks(Tail(fallbacks), locale, old_locale, l.fm)
                ELSE Outcome(l.ret, _current_locale, _fallback_locales, l.fm, <<>>))

\* set_locale assigning _current_locale and _fallback_locales before the load, so
\* that a call that raises leaves them assigned.
set_locale_assigns_first(locale) ==
    Let(load_locale_file(FM0, locale, FALSE), LAMBDA l :
      IF l.ret.kind = "return" THEN CommitLocale(locale, _current_locale, l.fm)
      ELSE IF l.ret.exc.type = "LocaleNotFoundError"
           THEN Let(TryFallbacks(_get_fallback_locales(default_locale, locale), locale,
                                 _current_locale, l.fm),
                    LAMBDA o : IF o.ret.kind = "return" THEN o
                               ELSE Outcome(o.ret, locale,
                                            _get_fallback_locales(default_locale, locale),
                                            o.fm, o.notified))
           ELSE Outcome(l.ret, _current_locale, _fallback_locales, l.fm, <<>>))

\* LocalEngine.set_locale
set_locale(locale) ==
    LET old_locale == _current_locale
    IN Let(load_locale_file(FM0, locale, FALSE), LAMBDA l :
         IF l.ret.kind = "return" THEN CommitLocale(locale, old_locale, l.fm)
         ELSE IF l.ret.exc.type = "LocaleNotFoundError"
              THEN TryFallbacks(_get_fallback_locales(default_locale, locale), locale,
                                old_locale, l.fm)
              ELSE Outcome(l.ret, _current_locale, _fallback_locales, l.fm, <<>>))

\* get_current_locale with the operands of its "or" exchanged: the default
\* locale whenever there is one.
get_current_locale_default_first ==
    IF default_locale # NoneTag THEN default_locale ELSE _current_locale

\* LocalEngine.get_current_locale
get_current_locale ==
    IF _current_locale # NoneTag THEN _current_locale ELSE default_locale

\* Descend that stops at a value that is not a dict and returns it.
RECURSIVE DescendKeepsLeaf(_, _)
DescendKeepsLeaf(current, keys) ==
    IF keys = <<>> THEN current
    ELSE LET k == Head(keys)
         IN IF current.kind # "dict" THEN current
            ELSE IF k \in DOMAIN current.kids
                 THEN DescendKeepsLeaf(current.kids[k], Tail(keys))
                 ELSE None

\* key.split("."), for a key written as its tokens, each a name or a dot, no
\* two names next to each other: the names between the dots, "" where a dot
\* has none before or after it.  A key without dot is its own single segment.
RECURSIVE split(_)
split(key) ==
    IF ~InSeq(".", key) THEN <<IF key = <<>> THEN "" ELSE key[1]>>
    ELSE LET i == CHOOSE n \in 1..Len(key) :
                    key[n] = "." /\ \A m \in 1..(n - 1) : key[m] # "."
         IN <<IF i = 1 THEN "" ELSE key[1]>> \o split(SubSeq(key, i + 1, Len(key)))

\* LocalEngine._get_nested_value: the loop over keys
RECURSIVE Descend(_, _)
Descend(current, keys) ==
    IF keys = <<>> THEN current
    ELSE LET k == Head(keys)
         IN IF current.kind = "dict" /\ k \in DOMAIN current.kids
            THEN Descend(current.kids[k], Tail(keys))
            ELSE None

\* LocalEngine._get_nested_value
_get_nested_value(data, key) ==
    IF Len(key) = 1
    THEN IF key[1] \in DOMAIN data.kids THEN data.kids[key[1]] ELSE None
    ELSE Descend(data, key)

\* LookupIn that reads nothing: a locale without a cache entry is a miss.
LookupInCachedOnly(fm, locale, key) ==
    IF locale \notin DOMAIN fm.cache
    THEN [done |-> FALSE, ret |-> Return(None), fm |-> fm]
    ELSE Let(_get_nested_value(fm.cache[locale], key), LAMBDA value :
           IF value # None
           THEN [done |-> TRUE, ret |-> Return(PyStr(value)), fm |-> fm]
           ELSE [done |-> FALSE, ret |-> Return(None), fm |-> fm])

\* The lookup in one locale without the except clause of get_text: a locale
\* that cannot be found ends the call with its LocaleNotFoundError.
LookupInRaisesNotFound(fm, locale, key) ==
    Let(load_locale_file(fm, locale, FALSE), LAMBDA l :
      IF l.ret.kind = "return"
      THEN Let(_get_nested_value(l.ret.value, key), LAMBDA value :
             IF value # None
             THEN [done |-> TRUE, ret |-> Return(PyStr(value)), fm |-> l.fm]
             ELSE [done |-> FALSE, ret |-> Return(None), fm |-> l.fm])
      ELSE [done |-> TRUE, ret |-> l.ret, fm |-> l.fm])

\* The lookup in one locale with every error of the load taken as a miss.
LookupInSkipsMalformed(fm, locale, key) ==
    Let(load_locale_file(fm, locale, FALSE), LAMBDA l :
      IF l.ret.kind = "return"
      THEN Let(_get_nested_value(l.ret.value, key), LAMBDA value :
             IF value # None
             THEN [done |-> TRUE, ret |-> Return(PyStr(value)), fm |-> l.fm]
             ELSE [done |-> FALSE, ret |-> Return(None), fm |-> l.fm])
      ELSE [done |-> FALSE, ret |-> Return(None), fm |-> l.fm])

\* get_text: load one locale and look the key up in it.  done tells whether the
\* call ends here; a LocaleNotFoundError is a miss, any other exception ends
\* the call.
LookupIn(fm, locale, key) ==
    Let(load_locale_file(fm, locale, FALSE), LAMBDA l :
      IF l.ret.kind = "return"
      THEN Let(_get_nested_value(l.ret.value, key), LAMBDA value :
             IF value # None
             THEN [done |-> TRUE, ret |-> Return(PyStr(value)), fm |-> l.fm]
             ELSE [done |-> FALSE, ret |-> Return(None), fm |-> l.fm])
      ELSE IF l.ret.exc.type = "LocaleNotFoundError"
           THEN [done |-> FALSE, ret |-> Return(None), fm |-> l.fm]
           ELSE [done |-> TRUE, ret |-> l.ret, fm |-> l.fm])

\* The loop over the fallback locales without its return: a later hit replaces
\* an earlier one.
RECURSIVE LookupInFallbacksLastHit(_, _, _)
LookupInFallbacksLastHit(fm, fallbacks, key) ==
    IF fallbacks = <<>> THEN [done |-> FALSE, ret |-> Return(None), fm |-> fm]
    ELSE Let(LookupIn(fm, Head(fallbacks), key), LAMBDA r :
           Let(LookupInFallbacksLastHit(r.fm, Tail(fallbacks), key), LAMBDA later :
             IF later.done \/ ~r.done THEN later
             ELSE [done |-> TRUE, ret |-> r.ret, fm |-> later.fm]))

\* get_text: the loop over the fallback locales
RECURSIVE LookupInFallbacks(_, _, _)
LookupInFallbacks(fm, fallbacks, key) ==
    IF fallbacks = <<>> THEN [done |-> FALSE, ret |-> Return(None), fm |-> fm]
    ELSE Let(LookupIn(fm, Head(fallbacks), key), LAMBDA r :
           IF r.done THEN r ELSE LookupInFallbacks(r.fm, Tail(fallbacks), key))

\* get_text with the test of line 151 inverted: the fallbacks are used when a
\* locale was requested, and only then.
get_text_falls_back_on_override(key, default, locale) ==
    LET target_locale == IF locale # NoneTag THEN locale ELSE get_current_locale
    IN Let(LookupIn(FM0, target_locale, key), LAMBDA first :
         IF first.done
         THEN Outcome(first.ret, _current_locale, _fallback_locales, first.fm, <<>>)
         ELSE Let(IF locale # NoneTag
                  THEN LookupInFallbacks(first.fm, _fallback_locales, key)
                  ELSE [done |-> FALSE, ret |-> Return(None), fm |-> first.fm],
                  LAMBDA second :
                    IF second.done
                    THEN Outcome(second.ret, _current_locale, _fallback_locales,
                                 second.fm, <<>>)
                    ELSE IF default # None
                    THEN Outcome(Return(default), _current_locale, _fallback_locales,
                                 second.fm, <<>>)
                    ELSE Outcome(Raise(TranslationKeyError(key, target_locale)),
                                 _current_locale, _fallback_locales, second.fm, <<>>)))

\* get_text raising TranslationKeyError before it looks at default, and for the
\* current locale instead of the target locale.
get_text_raises_before_default(key, default, locale) ==
    LET target_locale == IF locale # NoneTag THEN locale ELSE get_current_locale
    IN Let(LookupIn(FM0, target_locale, key), LAMBDA first :
         IF first.done
         THEN Outcome(first.ret, _current_locale, _fallback_locales, first.fm, <<>>)
         ELSE Let(IF locale = NoneTag
                  THEN LookupInFallbacks(first.fm, _fallback_locales, key)
                  ELSE [done |-> FALSE, ret |-> Return(None), fm |-> first.fm],
                  LAMBDA second :
                    IF second.done
                    THEN Outcome(second.ret, _current_locale, _fallback_locales,
                                 second.fm, <<>>)
                    ELSE Outcome(Raise(TranslationKeyError(key, get_current_locale)),
                                 _current_locale, _fallback_locales, second.fm, <<>>)))

\* LocalEngine.get_text; default and locale are None (NoneTag) when not given
get_text(key, default, locale) ==
    LET target_locale == IF locale # NoneTag THEN locale ELSE get_current_locale
    IN Let(LookupIn(FM0, target_locale, key), LAMBDA first :
         IF first.done
         THEN Outcome(first.ret, _current_locale, _fallback_locales, first.fm, <<>>)
         ELSE Let(IF locale = NoneTag
                  THEN LookupInFallbacks(first.fm, _fallback_locales, key)
                  ELSE [done |-> FALSE, ret |-> Return(None), fm |-> first.fm],
                  LAMBDA second :
                    IF second.done
                    THEN Outcome(second.ret, _current_locale, _fallback_locales,
                                 second.fm, <<>>)
                    ELSE IF default # None
                    THEN Outcome(Return(default), _current_locale, _fallback_locales,
                                 second.fm, <<>>)
                    ELSE Outcome(Raise(TranslationKeyError(key, target_locale)),
                                 _current_locale, _fallback_locales, second.fm, <<>>)))

\* has_key with a bare except: every exception of get_text becomes False.
has_key_catches_all(key, locale) ==
    Let(get_text(key, None, locale), LAMBDA g :
      IF g.ret.kind = "return"
      THEN Outcome(Return(PyBool(TRUE)), g.cur, g.fb, g.fm, g.notified)
      ELSE Outcome(Return(PyBool(FALSE)), g.cur, g.fb, g.fm, g.notified))

\* LocalEngine.has_key
has_key(key, locale) ==
    Let(get_text(key, None, locale), LAMBDA g :
      IF g.ret.kind = "return"
      THEN Outcome(Return(PyBool(TRUE)), g.cur, g.fb, g.fm, g.notified)
      ELSE IF g.ret.exc.type = "TranslationKeyError"
           THEN Outcome(Return(PyBool(FALSE)), g.cur, g.fb, g.fm, g.notified)
           ELSE g)

\* get_metadata that makes the locale it loaded the current one.
get_metadata_sets_locale(locale) ==
    LET target_locale == IF locale # NoneTag THEN locale ELSE get_current_locale
    IN Let(load_locale_file(FM0, target_locale, FALSE), LAMBDA l :
         IF l.ret.kind = "return"
         THEN Outcome(Return(IF "meta" \in DOMAIN l.ret.value.kids
                             THEN l.ret.value.kids["meta"] ELSE None),
                      target_locale, _get_fallback_locales(default_locale, target_locale),
                      l.fm, <<>>)
         ELSE IF l.ret.exc.type = "LocaleNotFoundError"
              THEN Outcome(Return(None), _current_locale, _fallback_locales, l.fm, <<>>)
              ELSE Outcome(l.ret, _current_locale, _fallback_locales, l.fm, <<>>))

\* LocalEngine.get_metadata: locale_data.get("meta") of the target locale, None
\* when load_locale_file raises LocaleNotFoundError; any other exception leaves
\* the method.
get_metadata(locale) ==
    LET target_locale == IF locale # NoneTag THEN locale ELSE get_current_locale
    IN Let(load_locale_file(FM0, target_locale, FALSE), LAMBDA l :
         IF l.ret.kind = "return"
         THEN Outcome(Return(IF "meta" \in DOMAIN l.ret.value.kids
                             THEN l.ret.value.kids["meta"] ELSE None),
                      _current_locale, _fallback_locales, l.fm, <<>>)
         ELSE IF l.ret.exc.type = "LocaleNotFoundError"
              THEN Outcome(Return(None), _current_locale, _fallback_locales, l.fm, <<>>)
              ELSE Outcome(l.ret, _current_locale, _fallback_locales, l.fm, <<>>))

\* reload_locale without force_reload: a valid entry is served from the cache.
reload_locale_from_cache(locale) ==
    LET target_locale == IF locale # NoneTag THEN locale ELSE get_current_locale
    IN Let(load_locale_file(FM0, target_locale, FALSE), LAMBDA l :
         IF l.ret.kind = "raise" THEN l ELSE [ret |-> Return(None), fm |-> l.fm])

\* LocalEngine.reload_locale: how it ends, and the cache it leaves
reload_locale(locale) ==
    LET target_locale == IF locale # NoneTag THEN locale ELSE get_current_locale
    IN Let(load_locale_file(FM0, target_locale, TRUE), LAMBDA l :
         IF l.ret.kind = "raise" THEN l ELSE [ret |-> Return(None), fm |-> l.fm])

\* ------------------------------------------------------------ the inputs
\* The locales that have a file in the store at some time, and the one path of
\* each that the environment writes: locales/{locale}.json.
FlatJson(l) == Path(l, FALSE, l, "json")
EnvWrites == {<<FlatJson(EnUS), TextOf(DocA)>>, <<FlatJson(EnUS), TextOf(DocB)>>,
              <<FlatJson(EnUS), Malformed>>,
              <<FlatJson(En), TextOf(DocA)>>, <<FlatJson(En), Malformed>>,
              <<FlatJson(EsES), TextOf(DocB)>>}
EnvPaths == {w[1] : w \in EnvWrites}
\* The tags callers pass, and the locales the system may detect.
Tags == {EnUS, EsES, EnGB}
Overrides == {EnUS, EnGB}
Defaults == {EnUS, EsES}
Timeouts == {0, 1, 2}
\* The store and the locales of the cache store on its own.
CacheWrites == {<<FlatJson(EnUS), TextOf(DocA)>>, <<FlatJson(EnUS), TextOf(DocB)>>,
                <<FlatJson(EnUS), Malformed>>, <<FlatJson(En), TextOf(DocA)>>}
CacheLocales == {EnUS, En}
DefaultText == Str("Default")

\* ------------------------------------------------------------ call records
Call(op, locale, key, default, ret) ==
    [op |-> op, locale |-> locale, key |-> key, default |-> default, ret |-> ret]
Idle == Call("", NoneTag, <<>>, None, Return(None))

\* The state an engine call leaves, and the record of the call.
Leaves(o, op, locale, key, default) ==
    /\ _current_locale' = o.cur
    /\ _fallback_locales' = o.fb
    /\ _cache' = o.fm.cache
    /\ _cache_timestamps' = o.fm.ts
    /\ result' = Call(op, locale, key, default, o.ret)
    /\ notified' = o.notified
    /\ resolved' = o.fm.log
    /\ tried' = o.fm.tried

\* FileManager._lock is free or held by one thread; _update_thread is None
\* until a thread is started; no stop() and no source read is under way.
Free == "free"
NoThread == "none"
NotStopping == "idle"
NotFetching == [locale |-> NoneTag, force_reload |-> FALSE]
\* The threads that use one engine: two callers and the update checker.
Threads == {"main", "worker", "updater"}

\* Before the constructor has run: the store is empty, nothing is cached, and
\* the arguments the program will pass are chosen.
InitOf(defaults, timeouts, first_phase, remotes, intervals) ==
    /\ files = EmptyMap
    /\ now = 0
    /\ phase = first_phase
    /\ default_locale \in defaults
    /\ cache_timeout \in timeouts
    /\ _cache = EmptyMap
    /\ _cache_timestamps = EmptyMap
    /\ _current_locale = NoneTag
    /\ _fallback_locales = <<>>
    /\ _change_callbacks = <<>>
    /\ result = Idle
    /\ notified = <<>>
    /\ resolved = <<>>
    /\ tried = <<>>
    /\ _is_remote \in remotes
    /\ check_updates_interval \in intervals
    /\ _stop_update_thread = FALSE
    /\ _update_thread = NoThread
    /\ _lock = Free
    /\ stopper = NotStopping
    /\ fetcher = NotFetching
    /\ engine_lock = Free
    /\ pc = [thread \in Threads |-> <<>>]

\* A local base_path and check_updates_interval = 0: no background thread.
InitWith(defaults, timeouts, first_phase) ==
    InitOf(defaults, timeouts, first_phase, {FALSE}, {0})

\* ---------------------------------------------------------- the environment
\* A call is made when the caller has taken the result of its previous call, and
\* the environment moves between calls.
Ready == result = Idle

\* The caller takes the result of the call, once the call has returned.
NextCall ==
    /\ ~Ready
    /\ result.op \notin {"get_text:152", "set_locale:85", "load_locale_file:71"}
    /\ result' = Idle
    /\ notified' = <<>>
    /\ resolved' = <<>>
    /\ tried' = <<>>
    /\ UNCHANGED <<envVars, configVars, cacheVars, engineVars, _change_callbacks>>
    /\ UNCHANGED threadVars

\* A file of the store is created or rewritten.
WriteFile(p, c) ==
    /\ Ready
    /\ IF p \in DOMAIN files THEN files[p] # c ELSE TRUE
    /\ files' = Put(files, p, c)
    /\ UNCHANGED <<callVars, threadVars>>
    /\ UNCHANGED <<now, configVars, cacheVars, engineVars, _change_callbacks>>

\* A file of the store is removed.
DeleteFile(p) ==
    /\ Ready
    /\ p \in DOMAIN files
    /\ files' = Pop(files, p)
    /\ UNCHANGED <<callVars, threadVars>>
    /\ UNCHANGED <<now, configVars, cacheVars, engineVars, _change_callbacks>>

\* The XML text of a document, laid out as the XML file of the tests: a root
\* with a meta element when the document has meta, and a locale element with
\* an element per other key; a dict is an element with an element per key, a
\* string an element with that character data.
RECURSIVE XmlNode(_, _)
XmlNode(tag, value) ==
    LET keys == CHOOSE s \in [1..Cardinality(DOMAIN value.kids) -> DOMAIN value.kids] :
                    \A i, j \in DOMAIN s : s[i] = s[j] => i = j
    IN [tag |-> tag,
        text |-> value.text,
        kids |-> IF value.kind = "dict"
                 THEN [i \in DOMAIN keys |-> XmlNode(keys[i], value.kids[keys[i]])]
                 ELSE <<>>]
XmlOf(d) ==
    LET others == Dict([k \in DOMAIN d.kids \ {"meta"} |-> d.kids[k]])
    IN [kind |-> "xml",
        parsesTo |-> [tag |-> "root", text |-> "",
                      kids |-> (IF "meta" \in DOMAIN d.kids
                                THEN <<XmlNode("meta", d.kids["meta"])>> ELSE <<>>)
                               \o <<XmlNode("locale", others)>>]]

\* One document written in the three formats, each under a locale of its own
\* (TestFileManager._create_test_files): en-US.json, en-GB.yaml, es-ES.xml.
WriteRenderings(d) ==
    /\ Ready
    /\ files' = [p \in {FlatJson(EnUS), Path(EnGB, FALSE, EnGB, "yaml"),
                        Path(EsES, FALSE, EsES, "xml")} |->
                   IF p.ext = "xml" THEN XmlOf(d) ELSE TextOf(d)]
    /\ files' # files
    /\ UNCHANGED <<callVars, threadVars>>
    /\ UNCHANGED <<now, configVars, cacheVars, engineVars, _change_callbacks>>

\* Time passes.
Tick ==
    /\ Ready
    /\ now < MaxTime
    /\ now' = now + 1
    /\ UNCHANGED <<callVars, threadVars>>
    /\ UNCHANGED <<files, configVars, cacheVars, engineVars, _change_callbacks>>

\* -------------------------------------------------------------- the calls
\* LocalEngine._start_update_checker: the thread starts in its first wait.
Waiting == "waiting"
Checking == "checking"
Exited == "exited"
_start_update_checker == IF check_updates_interval > 0 THEN Waiting ELSE NoThread

\* __init__ with the update checker started before the locale is set.
ConstructStartsFirst(auto_detect, detected) ==
    /\ Ready
    /\ phase = "new"
    /\ _lock = Free
    /\ LET locale == IF auto_detect THEN detected ELSE default_locale
       IN \E o \in {set_locale(locale)} :
            IF o.ret.kind = "return"
            THEN /\ phase' = "running"
                 /\ Leaves(o, "__init__", locale, <<>>, None)
            ELSE /\ phase' = "new"
                 /\ result' = Call("__init__", locale, <<>>, None, o.ret)
                 /\ notified' = o.notified
                 /\ resolved' = o.fm.log
                 /\ tried' = o.fm.tried
                 /\ UNCHANGED <<cacheVars, engineVars>>
    /\ _update_thread' = _start_update_checker
    /\ UNCHANGED <<envVars, default_locale, cache_timeout, _is_remote,
                   check_updates_interval, _change_callbacks>>
    /\ UNCHANGED <<_stop_update_thread, _lock, stopper, fetcher, engine_lock, pc>>

\* LocalEngine.__init__: detected is what detect_system_locale() returns.  When
\* set_locale raises, no engine exists and the constructor may be called again.
Construct(auto_detect, detected) ==
    /\ Ready
    /\ phase = "new"
    /\ _lock = Free
    /\ LET locale == IF auto_detect THEN detected ELSE default_locale
       IN \E o \in {set_locale(locale)} :
            IF o.ret.kind = "return"
            THEN /\ phase' = "running"
                 /\ Leaves(o, "__init__", locale, <<>>, None)
                 /\ _update_thread' = _start_update_checker
            ELSE /\ phase' = "new"
                 /\ result' = Call("__init__", locale, <<>>, None, o.ret)
                 /\ notified' = o.notified
                 /\ resolved' = o.fm.log
                 /\ tried' = o.fm.tried
                 /\ UNCHANGED <<cacheVars, engineVars, _update_thread>>
    /\ UNCHANGED <<envVars, default_locale, cache_timeout, _is_remote,
                   check_updates_interval, _change_callbacks>>
    /\ UNCHANGED <<_stop_update_thread, _lock, stopper, fetcher, engine_lock, pc>>

SetLocale(locale) ==
    /\ Ready
    /\ phase = "running"
    /\ _lock = Free
    /\ \E o \in {set_locale(locale)} : Leaves(o, "set_locale", locale, <<>>, None)
    /\ UNCHANGED <<envVars, configVars, _change_callbacks, threadVars>>

GetText(key, default, locale) ==
    /\ Ready
    /\ phase = "running"
    /\ _lock = Free
    /\ \E o \in {get_text(key, default, locale)} :
          Leaves(o, "get_text", locale, key, default)
    /\ UNCHANGED <<envVars, configVars, _change_callbacks, threadVars>>

HasKey(key, locale) ==
    /\ Ready
    /\ phase = "running"
    /\ _lock = Free
    /\ \E o \in {has_key(key, locale)} : Leaves(o, "has_key", locale, key, None)
    /\ UNCHANGED <<envVars, configVars, _change_callbacks, threadVars>>

GetCurrentLocale ==
    /\ Ready
    /\ phase = "running"
    /\ result' = Call("get_current_locale", NoneTag, <<>>, None,
                      Return(Str(get_current_locale)))
    /\ notified' = <<>>
    /\ resolved' = <<>>
    /\ tried' = <<>>
    /\ UNCHANGED <<envVars, configVars, cacheVars, engineVars, _change_callbacks>>
    /\ UNCHANGED threadVars

\* LocalEngine.add_locale_change_callback
AddLocaleChangeCallback(callback) ==
    /\ Ready
    /\ phase = "running"
    /\ Len(_change_callbacks) < MaxCallbacks
    /\ _change_callbacks' = Append(_change_callbacks, callback)
    /\ UNCHANGED <<callVars, threadVars>>
    /\ UNCHANGED <<envVars, configVars, cacheVars, engineVars>>

\* list.remove: the first occurrence goes
RECURSIVE RemoveFirst(_, _)
RemoveFirst(s, x) ==
    IF s = <<>> THEN <<>>
    ELSE IF Head(s) = x THEN Tail(s) ELSE <<Head(s)>> \o RemoveFirst(Tail(s), x)

\* LocalEngine.remove_locale_change_callback
RemoveLocaleChangeCallback(callback) ==
    /\ Ready
    /\ phase = "running"
    /\ InSeq(callback, _change_callbacks)
    /\ _change_callbacks' = RemoveFirst(_change_callbacks, callback)
    /\ UNCHANGED <<callVars, threadVars>>
    /\ UNCHANGED <<envVars, configVars, cacheVars, engineVars>>

\* FileManager.load_locale_file, called on engine.file_manager
LoadLocaleFile(locale, force_reload) ==
    /\ Ready
    /\ phase # "new"
    /\ _lock = Free
    /\ \E l \in {load_locale_file(FM0, locale, force_reload)} :
          /\ _cache' = l.fm.cache
          /\ _cache_timestamps' = l.fm.ts
          /\ result' = Call(IF force_reload THEN "load_locale_file(force_reload)"
                            ELSE "load_locale_file", locale, <<>>, None, l.ret)
          /\ resolved' = l.fm.log
          /\ tried' = l.fm.tried
    /\ notified' = <<>>
    /\ UNCHANGED <<envVars, configVars, engineVars, _change_callbacks, threadVars>>

\* LocalEngine._get_nested_value applied to the cached document of en-US and a
\* key as the caller writes it.
GetNestedValue(key) ==
    /\ Ready
    /\ EnUS \in DOMAIN _cache
    /\ result' = Call("_get_nested_value", EnUS, key, None,
                      Return(_get_nested_value(_cache[EnUS], split(key))))
    /\ notified' = <<>>
    /\ resolved' = <<>>
    /\ tried' = <<>>
    /\ UNCHANGED <<envVars, configVars, cacheVars, engineVars, _change_callbacks>>
    /\ UNCHANGED threadVars

\* FileManager.is_locale_cached, called on engine.file_manager
IsLocaleCached(locale) ==
    /\ Ready
    /\ phase # "new"
    /\ _lock = Free
    /\ result' = Call("is_locale_cached", locale, <<>>, None,
                      Return(PyBool(is_locale_cached(FM0, locale))))
    /\ notified' = <<>>
    /\ resolved' = <<>>
    /\ tried' = <<>>
    /\ UNCHANGED <<envVars, configVars, cacheVars, engineVars, _change_callbacks>>
    /\ UNCHANGED threadVars

\* FileManager.get_cached_locales, called on engine.file_manager: under the
\* lock, list(self._cache.keys()).  The keys come in the order the dict holds
\* them, which the maps of this model do not keep: any order of the keys.
GetCachedLocales ==
    /\ Ready
    /\ phase # "new"
    /\ _lock = Free
    /\ \E keys \in {s \in [1..Cardinality(DOMAIN _cache) -> DOMAIN _cache] :
                      \A i, j \in DOMAIN s : s[i] = s[j] => i = j} :
         result' = Call("get_cached_locales", NoneTag, <<>>, None,
                        Return([kind |-> "list", text |-> "",
                                kids |-> [i \in DOMAIN keys |-> Str(keys[i])]]))
    /\ notified' = <<>>
    /\ resolved' = <<>>
    /\ tried' = <<>>
    /\ UNCHANGED <<envVars, configVars, cacheVars, engineVars, _change_callbacks>>
    /\ UNCHANGED threadVars

\* LocalEngine.clear_cache
ClearCache(locale) ==
    /\ Ready
    /\ phase # "new"
    /\ _lock = Free
    /\ \E fm \in {clear_cache(FM0, locale)} :
          /\ _cache' = fm.cache
          /\ _cache_timestamps' = fm.ts
    /\ result' = Call("clear_cache", locale, <<>>, None, Return(None))
    /\ notified' = <<>>
    /\ resolved' = <<>>
    /\ tried' = <<>>
    /\ UNCHANGED <<envVars, configVars, engineVars, _change_callbacks, threadVars>>

\* LocalEngine.get_metadata
GetMetadata(locale) ==
    /\ Ready
    /\ phase = "running"
    /\ _lock = Free
    /\ \E o \in {get_metadata(locale)} : Leaves(o, "get_metadata", locale, <<>>, None)
    /\ UNCHANGED <<envVars, configVars, _change_callbacks, threadVars>>

\* LocalEngine.reload_locale
ReloadLocale(locale) ==
    /\ Ready
    /\ phase = "running"
    /\ _lock = Free
    /\ \E l \in {reload_locale(locale)} :
          /\ _cache' = l.fm.cache
          /\ _cache_timestamps' = l.fm.ts
          /\ result' = Call("reload_locale", locale, <<>>, None, l.ret)
          /\ resolved' = l.fm.log
          /\ tried' = l.fm.tried
    /\ notified' = <<>>
    /\ UNCHANGED <<envVars, configVars, engineVars, _change_callbacks, threadVars>>

\* ------------------------------------------- get_text beside set_locale
\* LocalEngine.get_text without override, in the two parts between which it
\* does not hold LocalEngine._lock.  Lines 139-149: it reads the current locale
\* under the lock, releases it, loads that locale and looks the key up.  When
\* the key is not there the call stands before line 152, and its record holds
\* target_locale in the locale field.
GetTextFirst(key, default) ==
    /\ Ready
    /\ phase = "running"
    /\ _lock = Free
    /\ \E first \in {LookupIn(FM0, get_current_locale, key)} :
         /\ _cache' = first.fm.cache
         /\ _cache_timestamps' = first.fm.ts
         /\ resolved' = first.fm.log
         /\ tried' = first.fm.tried
         /\ result' = IF first.done
                      THEN Call("get_text", NoneTag, key, default, first.ret)
                      ELSE Call("get_text:152", get_current_locale, key, default, Return(None))
    /\ notified' = <<>>
    /\ UNCHANGED <<envVars, configVars, engineVars, _change_callbacks, threadVars>>

\* Lines 152-169: it takes the lock again, copies the fallback list as it is
\* now, and goes through it.
GetTextRest ==
    /\ result.op = "get_text:152"
    /\ _lock = Free
    /\ \E second \in {LookupInFallbacks(FM0, _fallback_locales, result.key)} :
         /\ _cache' = second.fm.cache
         /\ _cache_timestamps' = second.fm.ts
         /\ resolved' = resolved \o second.fm.log
         /\ tried' = tried \o second.fm.tried
         /\ result' = Call("get_text", NoneTag, result.key, result.default,
                           IF second.done THEN second.ret
                           ELSE IF result.default # None THEN Return(result.default)
                           ELSE Raise(TranslationKeyError(result.key, result.locale)))
    /\ notified' = <<>>
    /\ UNCHANGED <<envVars, configVars, engineVars, _change_callbacks, threadVars>>

\* LocalEngine.set_locale, in the two parts between which another thread can
\* run.  Line 83: it reads _current_locale into old_locale, holding no lock; the
\* call stands before line 85, and its record holds old_locale in the key field.
SetLocaleFirst(locale) ==
    /\ Ready
    /\ phase = "running"
    /\ _lock = Free
    /\ result' = Call("set_locale:85", locale, _current_locale, None, Return(None))
    /\ notified' = <<>>
    /\ resolved' = <<>>
    /\ tried' = <<>>
    /\ UNCHANGED <<envVars, configVars, cacheVars, engineVars, _change_callbacks, threadVars>>

\* Lines 85-115: the loads, the commit under the lock and the notification,
\* which compares and passes the old_locale read at line 83.
SetLocaleRest ==
    /\ result.op = "set_locale:85"
    /\ _lock = Free
    /\ \E o \in {set_locale(result.locale)} :
         /\ _current_locale' = o.cur
         /\ _fallback_locales' = o.fb
         /\ _cache' = o.fm.cache
         /\ _cache_timestamps' = o.fm.ts
         /\ result' = Call("set_locale", result.locale, <<>>, None, o.ret)
         /\ notified' = IF o.ret.kind = "return" /\ result.key # o.cur
                        THEN _notify_locale_change(_change_callbacks, result.key, o.cur).log
                        ELSE <<>>
         /\ resolved' = o.fm.log
         /\ tried' = o.fm.tried
    /\ UNCHANGED <<envVars, configVars, _change_callbacks, threadVars>>

\* set_locale called by another thread while a get_text stands before line
\* 152 or a set_locale before line 85; the record of that call is not touched.
SetLocaleMeanwhile(locale) ==
    /\ result.op \in {"get_text:152", "set_locale:85"}
    /\ _lock = Free
    /\ \E o \in {set_locale(locale)} :
         /\ _current_locale' = o.cur
         /\ _fallback_locales' = o.fb
         /\ _cache' = o.fm.cache
         /\ _cache_timestamps' = o.fm.ts
    /\ UNCHANGED <<envVars, configVars, callVars, _change_callbacks, threadVars>>

\* BeginLoad without the check of line 63: the source is read although a valid
\* entry is there.
BeginLoadIgnoresEntry(locale, force_reload) ==
    /\ phase # "new"
    /\ _lock = Free
    /\ fetcher = NotFetching
    /\ _lock' = "fetcher"
    /\ fetcher' = [locale |-> locale, force_reload |-> force_reload]
    /\ UNCHANGED <<engine_lock, pc>>
    /\ UNCHANGED <<envVars, configVars, cacheVars, engineVars, _change_callbacks>>
    /\ UNCHANGED <<callVars, _stop_update_thread, _update_thread, stopper>>

\* ------------------------------------------------------------ the threads
\* FileManager.load_locale_file called in a thread of its own, in two steps.
\* It takes the lock and finds that the source has to be read: force_reload, or
\* no valid entry.
BeginLoad(locale, force_reload) ==
    /\ phase # "new"
    /\ _lock = Free
    /\ fetcher = NotFetching
    /\ IF force_reload THEN TRUE ELSE ~_is_cache_valid(FM0, locale)
    /\ _lock' = "fetcher"
    /\ fetcher' = [locale |-> locale, force_reload |-> force_reload]
    /\ UNCHANGED <<engine_lock, pc>>
    /\ UNCHANGED <<envVars, configVars, cacheVars, engineVars, _change_callbacks>>
    /\ UNCHANGED <<callVars, _stop_update_thread, _update_thread, stopper>>

\* EndLoad with the lock released before line 71: the entry is in _cache, its
\* timestamp is not written yet, and the lock is free.
EndLoadReleasesEarly ==
    /\ Ready
    /\ fetcher # NotFetching
    /\ UNCHANGED <<engine_lock, pc>>
    /\ _lock = "fetcher"
    /\ \E l \in {load_locale_file(FM0, fetcher.locale, TRUE)} :
          /\ _cache' = l.fm.cache
          /\ resolved' = l.fm.log
          /\ tried' = l.fm.tried
          /\ IF l.ret.kind = "raise"
             THEN /\ result' = Call(IF fetcher.force_reload
                                    THEN "load_locale_file(force_reload)"
                                    ELSE "load_locale_file", fetcher.locale, <<>>, None, l.ret)
                  /\ fetcher' = NotFetching
             ELSE /\ result' = Call("load_locale_file:71", fetcher.locale, <<>>, None,
                                    Return(None))
                  /\ fetcher' = fetcher
    /\ _lock' = Free
    /\ notified' = <<>>
    /\ UNCHANGED <<envVars, configVars, engineVars, _change_callbacks, _cache_timestamps>>
    /\ UNCHANGED <<_stop_update_thread, _update_thread, stopper>>

\* Lines 67-70, under the lock: _load_from_source ends.  When it raises, the
\* lock is released and the call ends with nothing stored.  When it returns,
\* the document is stored in _cache, and the call stands before line 71: its
\* timestamp is not written yet.
EndLoad ==
    /\ Ready
    /\ fetcher # NotFetching
    /\ UNCHANGED <<engine_lock, pc>>
    /\ _lock = "fetcher"
    /\ \E l \in {load_locale_file(FM0, fetcher.locale, TRUE)} :
          /\ _cache' = l.fm.cache
          /\ resolved' = l.fm.log
          /\ tried' = l.fm.tried
          /\ IF l.ret.kind = "raise"
             THEN /\ result' = Call(IF fetcher.force_reload
                                    THEN "load_locale_file(force_reload)"
                                    ELSE "load_locale_file", fetcher.locale, <<>>, None, l.ret)
                  /\ _lock' = Free
                  /\ fetcher' = NotFetching
             ELSE /\ result' = Call("load_locale_file:71", fetcher.locale, <<>>, None,
                                    Return(None))
                  /\ UNCHANGED <<_lock, fetcher>>
    /\ notified' = <<>>
    /\ UNCHANGED <<envVars, configVars, engineVars, _change_callbacks, _cache_timestamps>>
    /\ UNCHANGED <<_stop_update_thread, _update_thread, stopper>>

\* Lines 71-73: the timestamp is written, the lock is released and the
\* document is returned.
StampLoad ==
    /\ result.op = "load_locale_file:71"
    /\ fetcher # NotFetching
    /\ _cache_timestamps' = Put(_cache_timestamps, fetcher.locale, now)
    /\ result' = Call(IF fetcher.force_reload THEN "load_locale_file(force_reload)"
                      ELSE "load_locale_file", fetcher.locale, <<>>, None,
                      Return(_cache[fetcher.locale]))
    /\ _lock' = Free
    /\ fetcher' = NotFetching
    /\ UNCHANGED <<engine_lock, pc>>
    /\ UNCHANGED <<envVars, configVars, engineVars, _change_callbacks, _cache>>
    /\ UNCHANGED <<notified, resolved, tried, _stop_update_thread, _update_thread, stopper>>

\* threading.Thread.is_alive
is_alive(thread) == thread \in {Waiting, Checking}

\* LocalEngine._update_checker_loop: wait(check_updates_interval) times out
\* with the event not set, and the body of the loop starts.
TaskWake ==
    /\ _update_thread = Waiting
    /\ ~_stop_update_thread
    /\ _update_thread' = Checking
    /\ UNCHANGED <<envVars, configVars, cacheVars, engineVars, _change_callbacks>>
    /\ UNCHANGED <<callVars, _stop_update_thread, _lock, stopper, fetcher, engine_lock, pc>>

\* wait() returns True: the loop ends, and the thread with it.
TaskExit ==
    /\ _update_thread = Waiting
    /\ _stop_update_thread
    /\ _update_thread' = Exited
    /\ UNCHANGED <<envVars, configVars, cacheVars, engineVars, _change_callbacks>>
    /\ UNCHANGED <<callVars, _stop_update_thread, _lock, stopper, fetcher, engine_lock, pc>>

\* The body of the loop with a reload in the branch the code leaves empty.
_update_checker_tick_reloads(fm, current_locale) ==
    IF ~is_locale_cached(fm, current_locale)
    THEN load_locale_file(fm, current_locale, FALSE).fm
    ELSE fm

\* The body of the loop: the cache it leaves.
_update_checker_tick(fm, current_locale) ==
    IF ~is_locale_cached(fm, current_locale) THEN fm ELSE fm

\* The body raising with the exception leaving the loop: the thread ends.
TaskFaultEndsThread ==
    /\ _update_thread = Checking
    /\ _update_thread' = Exited
    /\ UNCHANGED <<envVars, configVars, cacheVars, engineVars, _change_callbacks>>
    /\ UNCHANGED <<callVars, _stop_update_thread, _lock, stopper, fetcher, engine_lock, pc>>

\* The body of the loop raises an Exception, at any point of it (with the
\* file manager's lock never taken, or released by its with statement):
\* "except Exception: pass", and the thread waits again.
TaskFault ==
    /\ _update_thread = Checking
    /\ _update_thread' = Waiting
    /\ UNCHANGED <<envVars, configVars, cacheVars, engineVars, _change_callbacks>>
    /\ UNCHANGED <<callVars, _stop_update_thread, _lock, stopper, fetcher, engine_lock, pc>>

\* The body runs: is_locale_cached takes the lock, and the thread waits again.
TaskCheck ==
    /\ _update_thread = Checking
    /\ _lock = Free
    /\ \E fm \in {_update_checker_tick(FM0, get_current_locale)} :
          /\ _cache' = fm.cache
          /\ _cache_timestamps' = fm.ts
          /\ resolved' = resolved \o fm.log
          /\ tried' = tried \o fm.tried
    /\ _update_thread' = Waiting
    /\ UNCHANGED <<envVars, configVars, engineVars, _change_callbacks>>
    /\ UNCHANGED <<result, notified, _stop_update_thread, _lock, stopper, fetcher, engine_lock, pc>>

\* LocalEngine.stop: the event is set, and a live thread is joined.
Stop ==
    /\ phase = "running"
    /\ stopper = NotStopping
    /\ _stop_update_thread' = TRUE
    /\ stopper' = IF _update_thread # NoThread /\ is_alive(_update_thread)
                  THEN "join" ELSE "clear_cache"
    /\ UNCHANGED <<envVars, configVars, cacheVars, engineVars, _change_callbacks>>
    /\ UNCHANGED <<callVars, _update_thread, _lock, fetcher, engine_lock, pc>>

\* join(timeout=1.0) returns because the thread has ended.
StopJoined ==
    /\ stopper = "join"
    /\ ~is_alive(_update_thread)
    /\ stopper' = "clear_cache"
    /\ UNCHANGED <<envVars, configVars, cacheVars, engineVars, _change_callbacks>>
    /\ UNCHANGED <<callVars, _stop_update_thread, _update_thread, _lock, fetcher, engine_lock, pc>>

\* join(timeout=1.0) returns after its second with the thread alive: the thread
\* waits in is_locale_cached for the lock, which a source read holds.
StopJoinTimeout ==
    /\ stopper = "join"
    /\ _update_thread = Checking
    /\ _lock # Free
    /\ stopper' = "clear_cache"
    /\ UNCHANGED <<envVars, configVars, cacheVars, engineVars, _change_callbacks>>
    /\ UNCHANGED <<callVars, _stop_update_thread, _update_thread, _lock, fetcher, engine_lock, pc>>

\* stop returning without its clear_cache().
StopReturnWithoutClear ==
    /\ Ready
    /\ stopper = "clear_cache"
    /\ _lock = Free
    /\ result' = Call("stop", NoneTag, <<>>, None, Return(None))
    /\ notified' = <<>>
    /\ resolved' = <<>>
    /\ tried' = <<>>
    /\ stopper' = NotStopping
    /\ UNCHANGED <<envVars, configVars, cacheVars, engineVars, _change_callbacks>>
    /\ UNCHANGED <<_stop_update_thread, _update_thread, _lock, fetcher, engine_lock, pc>>

\* self.clear_cache() takes the lock, and stop returns.
StopReturn ==
    /\ Ready
    /\ stopper = "clear_cache"
    /\ _lock = Free
    /\ \E fm \in {clear_cache(FM0, NoneTag)} :
          /\ _cache' = fm.cache
          /\ _cache_timestamps' = fm.ts
    /\ result' = Call("stop", NoneTag, <<>>, None, Return(None))
    /\ notified' = <<>>
    /\ resolved' = <<>>
    /\ tried' = <<>>
    /\ stopper' = NotStopping
    /\ UNCHANGED <<envVars, configVars, engineVars, _change_callbacks>>
    /\ UNCHANGED <<_stop_update_thread, _update_thread, _lock, fetcher, engine_lock, pc>>

\* The environment of the engine: the store changes under it.
StoreChanges ==
    \/ \E w \in EnvWrites : WriteFile(w[1], w[2])
    \/ \E p \in EnvPaths : DeleteFile(p)

\* Switching: construction, set_locale and the callbacks, over a cache that is
\* filled and cleared.  Entries do not age here (a timeout of 1 and no Tick).
SwitchInit == InitWith(Defaults, {1}, "new")
SwitchNext ==
    \/ StoreChanges
    \/ \E auto_detect \in BOOLEAN, detected \in Tags : Construct(auto_detect, detected)
    \/ \E locale \in Tags : SetLocale(locale)
    \/ GetCurrentLocale
    \/ \E callback \in Callbacks : AddLocaleChangeCallback(callback)
    \/ \E callback \in Callbacks : RemoveLocaleChangeCallback(callback)
    \/ \E locale \in {NoneTag} \cup Tags : ClearCache(locale)
    \/ NextCall
SwitchSpec == SwitchInit /\ [][SwitchNext]_vars

\* Lookup: get_text and has_key over every locale and chain set_locale commits.
\* With a timeout of 0 no entry is ever valid, with 1 every entry is until cleared.
TextInit == InitWith(Defaults, {0, 1}, "new")
TextNext ==
    \/ StoreChanges
    \/ \E auto_detect \in BOOLEAN, detected \in Tags : Construct(auto_detect, detected)
    \/ \E locale \in Tags : SetLocale(locale)
    \/ \E key \in Keys, default \in {None, DefaultText}, locale \in {NoneTag} \cup Overrides :
          GetText(key, default, locale)
    \/ \E key \in Keys, locale \in {NoneTag} \cup Overrides : HasKey(key, locale)
    \/ \E locale \in {NoneTag} \cup Tags : ClearCache(locale)
    \/ NextCall
TextSpec == TextInit /\ [][TextNext]_vars

\* The cache store on its own, as FileManager(base_path, cache_timeout), with time.
CacheInit == InitWith({EnUS}, Timeouts, "file_manager")
CacheNext ==
    \/ \E w \in CacheWrites : WriteFile(w[1], w[2])
    \/ \E p \in {w[1] : w \in CacheWrites} : DeleteFile(p)
    \/ Tick
    \/ \E locale \in CacheLocales, force_reload \in BOOLEAN :
          LoadLocaleFile(locale, force_reload)
    \/ \E locale \in CacheLocales : IsLocaleCached(locale)
    \/ \E locale \in {NoneTag} \cup CacheLocales : ClearCache(locale)
    \/ NextCall
CacheSpec == CacheInit /\ [][CacheNext]_vars

\* The engine with its background thread, a thread that calls stop() and a
\* thread inside load_locale_file, over two locales.  Entries do not age here.
ThreadLocales == {EnUS, En}
ThreadWrites == {<<FlatJson(EnUS), TextOf(DocA)>>, <<FlatJson(En), TextOf(DocA)>>}
Intervals == {0, 1}
ThreadInit == InitOf({EnUS}, {1}, "new", {FALSE}, Intervals)
ThreadNext ==
    \/ \E w \in ThreadWrites : WriteFile(w[1], w[2])
    \/ \E p \in {w[1] : w \in ThreadWrites} : DeleteFile(p)
    \/ \E auto_detect \in BOOLEAN : Construct(auto_detect, EsES)
    \/ \E locale \in ThreadLocales, force_reload \in BOOLEAN : BeginLoad(locale, force_reload)
    \/ EndLoad
    \/ StampLoad
    \/ \E locale \in ThreadLocales :
          _is_cache_valid(FM0, locale) /\ LoadLocaleFile(locale, FALSE)
    \/ \E locale \in ThreadLocales : IsLocaleCached(locale)
    \/ GetCachedLocales
    \/ \E locale \in {NoneTag} \cup ThreadLocales : ClearCache(locale)
    \/ TaskWake
    \/ TaskExit
    \/ TaskCheck
    \/ TaskFault
    \/ Stop
    \/ StopJoined
    \/ StopJoinTimeout
    \/ StopReturn
    \/ NextCall
ThreadSpec == ThreadInit /\ [][ThreadNext]_vars

\* The chains: an engine of any default locale switching between tags of every
\* shape, over a store that has a file for each of them.
ChainTags == {EnUS, EnGB, En, EsMX, Tag("fr", "CA"), Tag("xx", "YY"), <<"de">>}
ChainInit == InitOf(ChainTags, {1}, "new", {FALSE}, {0})
ChainWrite ==
    /\ Ready
    /\ phase = "new"
    /\ files = EmptyMap
    /\ files' = [p \in {FlatJson(t) : t \in ChainTags} |-> TextOf(DocA)]
    /\ UNCHANGED <<callVars, threadVars>>
    /\ UNCHANGED <<now, configVars, cacheVars, engineVars, _change_callbacks>>
ChainNext ==
    \/ ChainWrite
    \/ \E auto_detect \in BOOLEAN, detected \in ChainTags : Construct(auto_detect, detected)
    \/ \E locale \in ChainTags : SetLocale(locale)
    \/ NextCall
ChainSpec == ChainInit /\ [][ChainNext]_vars

\* The source resolver: a file manager over a local or a remote base, with a
\* timeout of 0 so that every load_locale_file reads the source.  The store
\* holds any of four candidates of "en-US": the first and the last flat one, and
\* two directory ones that the two loops of _get_possible_file_paths order.
ResolvePaths == {Path(EnUS, FALSE, EnUS, "json"), Path(EnUS, FALSE, EnUS, "xml"),
                 Path(EnUS, TRUE, <<"translations">>, "json"),
                 Path(EnUS, TRUE, EnUS, "yaml")}
ResolveInit == InitOf({EnUS}, {0}, "file_manager", BOOLEAN, {0})
ResolveNext ==
    \/ \E p \in ResolvePaths, c \in Contents : WriteFile(p, c)
    \/ \E p \in ResolvePaths, c \in {HttpStatusError, ConnectionFault, TimeoutFault} :
          _is_remote /\ WriteFile(p, c)
    \/ \E p \in ResolvePaths : DeleteFile(p)
    \/ LoadLocaleFile(EnUS, FALSE)
    \/ NextCall
ResolveSpec == ResolveInit /\ [][ResolveNext]_vars

\* The same with the scheduling the threads get: a thread that can run does,
\* and a thread that waits for the lock gets it in the end.
ThreadFairSpec ==
    /\ ThreadSpec
    /\ WF_vars(TaskExit)
    /\ SF_vars(TaskCheck)
    /\ WF_vars(EndLoad)
    /\ WF_vars(StampLoad)
    /\ WF_vars(NextCall)

\* Maintenance: reload_locale and clear_cache on an engine with callbacks, over
\* a store that changes and entries that age without expiring (a timeout above
\* the last tick of the clock).
ReloadInit == InitWith({EnUS}, {MaxTime + 1}, "new")
ReloadNext ==
    \/ \E w \in CacheWrites : WriteFile(w[1], w[2])
    \/ \E p \in {w[1] : w \in CacheWrites} : DeleteFile(p)
    \/ Tick
    \/ Construct(FALSE, EnUS)
    \/ \E callback \in Callbacks : AddLocaleChangeCallback(callback)
    \/ \E locale \in {NoneTag, EnUS, EnGB} : ReloadLocale(locale)
    \/ \E locale \in {NoneTag, EnUS, EnGB} : GetMetadata(locale)
    \/ \E locale \in {NoneTag, EnUS} : ClearCache(locale)
    \/ NextCall
ReloadSpec == ReloadInit /\ [][ReloadNext]_vars

\* A get_text or a set_locale in one thread and set_locale calls in another,
\* over a store with English and Spanish files.
RaceNext ==
    \/ \E w \in EnvWrites \cup {<<FlatJson(EsMX), TextOf(DocA)>>} : WriteFile(w[1], w[2])
    \/ Construct(FALSE, EnUS)
    \/ \E key \in Keys, default \in {None, DefaultText} : GetTextFirst(key, default)
    \/ GetTextRest
    \/ AddLocaleChangeCallback(CallbackOk)
    \/ \E locale \in Tags : SetLocaleFirst(locale)
    \/ SetLocaleRest
    \/ \E locale \in Tags : SetLocaleMeanwhile(locale)
    \/ NextCall
RaceSpec == ReloadInit /\ [][RaceNext]_vars

\* Key lookup: documents three levels deep in the cache of a file manager, and
\* every key of up to MaxKeyLen tokens over three names and the dot.
KeyNext ==
    \/ \E d \in {Dict([a |-> Dict([b |-> Dict([c |-> Str("x")])])]),
                 Dict([a |-> Dict([b |-> Str("leaf")])]),
                 Dict([a |-> Str("top"), b |-> Dict([a |-> Str("y")])])} :
          WriteFile(FlatJson(EnUS), TextOf(d))
    \/ LoadLocaleFile(EnUS, TRUE)
    \/ \E n \in 0..MaxKeyLen :
         \E key \in {k \in [1..n -> {"a", "b", "c", "."}] :
                       \A i \in 1..(n - 1) : k[i] = "." \/ k[i + 1] = "."} :
            GetNestedValue(key)
    \/ NextCall
KeySpec == InitWith({EnUS}, {1}, "file_manager") /\ [][KeyNext]_vars

\* The codecs: documents written in the three formats and loaded from each.
CodecNext ==
    \/ \E d \in {DocA, DocB, Dict([greeting |-> Str("Hallo")]), Dict(NoKids),
                 Dict([meta |-> Dict([version |-> Str("1.0.0")]),
                       greeting |-> Str("")])} : WriteRenderings(d)
    \/ \E locale \in Tags, force_reload \in BOOLEAN : LoadLocaleFile(locale, force_reload)
    \/ NextCall
CodecSpec == InitWith({EnUS}, {1}, "file_manager") /\ [][CodecNext]_vars

\* The calls that read: get_text, has_key, get_metadata and get_current_locale
\* on an engine with a callback, whose locale set_locale moves, over a store
\* that changes and a cache that is cleared.  With a timeout of 0 every load
\* reads the source again, with 1 an entry is served until it is cleared.
FrameNext ==
    \/ \E w \in {<<FlatJson(EnUS), TextOf(DocB)>>, <<FlatJson(En), TextOf(DocA)>>,
                 <<FlatJson(En), Malformed>>, <<FlatJson(EnGB), TextOf(DocA)>>,
                 <<FlatJson(EsES), TextOf(DocB)>>} :
          WriteFile(w[1], w[2])
    \/ DeleteFile(FlatJson(En))
    \/ Construct(FALSE, EnUS)
    \/ AddLocaleChangeCallback(CallbackOk)
    \/ \E locale \in {EnUS, EsES} : SetLocale(locale)
    \/ \E key \in Keys, default \in {None, DefaultText}, locale \in {NoneTag, En} :
          GetText(key, default, locale)
    \/ \E key \in Keys, locale \in {NoneTag, En} : HasKey(key, locale)
    \/ \E locale \in {NoneTag, En} : GetMetadata(locale)
    \/ GetCurrentLocale
    \/ ClearCache(NoneTag)
    \/ NextCall
FrameSpec == InitWith({EnUS}, {0, 1}, "new") /\ [][FrameNext]_vars

\* -------------------------------------------------------------- the locks
\* What a call does with the two locks, in program order. A with block is an
\* acquire and a release; a registered callback is one step that runs with
\* whatever its caller holds. Loads that raise LocaleNotFoundError and loads
\* that return take and release the cache lock alike (load_locale_file, the
\* whole body under the lock), so a call is told by how many loads it makes.
\*
\* set_locale that notifies before it leaves the with block
set_locale_steps_notify_inside(depth) ==
    LET With(lock) == <<[do |-> "acquire", lock |-> lock, depth |-> depth],
                        [do |-> "release", lock |-> lock, depth |-> depth]>>
        Loads[n \in 0..(MaxLoads + 1)] == IF n = 0 THEN <<>> ELSE With("cache") \o Loads[n - 1]
        callbacks(n) == [i \in 1..n |-> [do |-> "callback", lock |-> "none", depth |-> depth]]
    IN  {Loads[n] : n \in 1..(MaxLoads + 1)}
        \cup {Loads[n] \o <<With("engine")[1]>> \o callbacks(k) \o <<With("engine")[2]>> :
                n \in 1..(MaxLoads + 1), k \in 0..MaxCallbacks}

\* set_locale: the requested locale, then fallbacks until one loads (all may
\* fail: the call raises, having taken the engine lock never); the assignment
\* under the engine lock; then the callbacks, after the with block.
set_locale_steps(depth) ==
    LET With(lock) == <<[do |-> "acquire", lock |-> lock, depth |-> depth],
                        [do |-> "release", lock |-> lock, depth |-> depth]>>
        Loads[n \in 0..(MaxLoads + 1)] == IF n = 0 THEN <<>> ELSE With("cache") \o Loads[n - 1]
        callbacks(n) == [i \in 1..n |-> [do |-> "callback", lock |-> "none", depth |-> depth]]
    IN  {Loads[n] : n \in 1..(MaxLoads + 1)}
        \cup {Loads[n] \o With("engine") \o callbacks(k) :
                n \in 1..(MaxLoads + 1), k \in 0..MaxCallbacks}

\* The calls a thread can make. The update checker makes its tick only
\* (get_current_locale, then is_locale_cached); a callback makes set_locale,
\* get_text or get_current_locale; a caller makes these and clear_cache, and
\* stop (whose join waits a second at most, then clear_cache).
Programs(thread, depth) ==
    LET With(lock) == <<[do |-> "acquire", lock |-> lock, depth |-> depth],
                        [do |-> "release", lock |-> lock, depth |-> depth]>>
        Loads[n \in 0..MaxLoads] == IF n = 0 THEN <<>> ELSE With("cache") \o Loads[n - 1]
        get_current_locale_steps == With("engine")
        load_locale_file_steps == With("cache")
        get_text_steps == {load_locale_file_steps, get_current_locale_steps \o load_locale_file_steps}
                    \cup {get_current_locale_steps \o load_locale_file_steps \o With("engine") \o Loads[n] :
                            n \in 0..MaxLoads}
        clear_cache_steps == With("cache")
        stop_steps == clear_cache_steps
        tick_steps == get_current_locale_steps \o With("cache")
    IN  IF thread = "updater" THEN {tick_steps}
        ELSE set_locale_steps(depth) \cup get_text_steps \cup {get_current_locale_steps}
             \cup (IF depth = 0 THEN {clear_cache_steps, stop_steps} ELSE {})

\* A thread that is in no call makes one.
Begin(thread) ==
    /\ phase = "running"
    /\ pc[thread] = <<>>
    /\ \E program \in Programs(thread, 0) : pc' = [pc EXCEPT ![thread] = program]
    /\ UNCHANGED <<envVars, configVars, cacheVars, engineVars, _change_callbacks, callVars>>
    /\ UNCHANGED <<_stop_update_thread, _update_thread, _lock, stopper, fetcher, engine_lock>>

\* with self._lock: threading.Lock, so a thread waits while any thread holds
\* the lock, itself included.
Acquire(thread) ==
    /\ pc[thread] # <<>>
    /\ Head(pc[thread]).do = "acquire"
    /\ IF Head(pc[thread]).lock = "engine"
       THEN engine_lock = Free /\ engine_lock' = thread /\ _lock' = _lock
       ELSE _lock = Free /\ _lock' = thread /\ engine_lock' = engine_lock
    /\ pc' = [pc EXCEPT ![thread] = Tail(@)]
    /\ UNCHANGED <<envVars, configVars, cacheVars, engineVars, _change_callbacks, callVars>>
    /\ UNCHANGED <<_stop_update_thread, _update_thread, stopper, fetcher>>

\* the end of a with block
Release(thread) ==
    /\ pc[thread] # <<>>
    /\ Head(pc[thread]).do = "release"
    /\ IF Head(pc[thread]).lock = "engine"
       THEN engine_lock' = Free /\ _lock' = _lock
       ELSE _lock' = Free /\ engine_lock' = engine_lock
    /\ pc' = [pc EXCEPT ![thread] = Tail(@)]
    /\ UNCHANGED <<envVars, configVars, cacheVars, engineVars, _change_callbacks, callVars>>
    /\ UNCHANGED <<_stop_update_thread, _update_thread, stopper, fetcher>>

\* LocalEngine._notify_locale_change, one callback: it returns, or it calls
\* the engine from the thread that is notifying.
Callback(thread) ==
    /\ pc[thread] # <<>>
    /\ Head(pc[thread]).do = "callback"
    /\ \E program \in {<<>>} \cup (IF Head(pc[thread]).depth < MaxNesting
                                  THEN Programs(thread, Head(pc[thread]).depth + 1)
                                  ELSE {}) :
          pc' = [pc EXCEPT ![thread] = program \o Tail(@)]
    /\ UNCHANGED <<envVars, configVars, cacheVars, engineVars, _change_callbacks, callVars>>
    /\ UNCHANGED <<_stop_update_thread, _update_thread, _lock, stopper, fetcher, engine_lock>>

\* Two callers and the update checker on one engine, every call followed lock
\* by lock.
LockNext ==
    \/ WriteFile(FlatJson(EnUS), TextOf(DocA))
    \/ Construct(FALSE, EnUS)
    \/ \E thread \in Threads : Begin(thread)
    \/ \E thread \in Threads : Acquire(thread)
    \/ \E thread \in Threads : Release(thread)
    \/ \E thread \in Threads : Callback(thread)
LockSpec == InitWith({EnUS}, {1}, "new") /\ [][LockNext]_vars

\* ------------------------------------------------------------ the claims
Range(s) == {s[i] : i \in 1..Len(s)}

\* How load_locale_file(locale) would end in this state.
LoadEnds(locale) == load_locale_file(FM0, locale, FALSE).ret
Loadable(locale) == LoadEnds(locale).kind = "return"
NotFound(locale) == LoadEnds(locale) = Raise(LocaleNotFoundError(locale))

\* The chain set_locale computes for tag.
ChainOf(tag) == _get_fallback_locales(default_locale, tag)

\* One invocation of each registration, in registration order.
NotifyAll(old_locale, new_locale) ==
    [i \in 1..Len(_change_callbacks) |->
       Invocation(_change_callbacks[i], old_locale, new_locale)]

\* This step is the call set_locale(tag) on a constructed engine.
SetLocaleCalled(tag) ==
    /\ Ready
    /\ result'.op = "set_locale"
    /\ result'.locale = tag

\* C1: when the load of tag and the load of every locale of the chain computed
\* for tag end in LocaleNotFoundError, set_locale(tag) raises
\* LocaleNotFoundError(tag), leaves _current_locale and _fallback_locales as they
\* were, and invokes no callback.
C1_SetLocaleNothingLoadable ==
    [][\A tag \in Tags :
         (/\ SetLocaleCalled(tag)
          /\ \A l \in {tag} \cup Range(ChainOf(tag)) : NotFound(l))
         => /\ result'.ret = Raise(LocaleNotFoundError(tag))
            /\ _current_locale' = _current_locale
            /\ _fallback_locales' = _fallback_locales
            /\ notified' = <<>>]_vars

\* C1 happens: a set_locale on an engine that holds a locale and callbacks found
\* nothing to load, for the tag or for its chain, and raised.
C1_Witness ==
    /\ result.op = "set_locale"
    /\ \A l \in {result.locale} \cup Range(ChainOf(result.locale)) : NotFound(l)
    /\ result.ret = Raise(LocaleNotFoundError(result.locale))
    /\ Len(resolved) = 1 + Len(ChainOf(result.locale))
    /\ _current_locale # NoneTag
    /\ _change_callbacks # <<>>

\* The first locale of chain whose load returns.
FirstLoadable(chain) ==
    chain[CHOOSE i \in 1..Len(chain) :
            Loadable(chain[i]) /\ \A j \in 1..(i - 1) : ~Loadable(chain[j])]

\* C2 as stated: for a tag whose own source is absent and whose chain holds a
\* loadable locale, set_locale(tag) returns, commits the first loadable locale f
\* of the chain and invokes every callback once with (old, f).
C2_AsStated ==
    [][\A tag \in Tags :
         (/\ SetLocaleCalled(tag)
          /\ _load_from_source(tag) = Raise(LocaleNotFoundError(tag))
          /\ \E l \in Range(ChainOf(tag)) : Loadable(l))
         => /\ result'.ret = Return(None)
            /\ _current_locale' = FirstLoadable(ChainOf(tag))
            /\ notified' = NotifyAll(_current_locale, FirstLoadable(ChainOf(tag)))]_vars

\* C2: when the load of tag ends in LocaleNotFoundError and the chain computed for
\* tag has a locale f whose load returns, every locale before f in the chain
\* ending in LocaleNotFoundError, set_locale(tag) returns, commits f and the chain
\* of f, and invokes every registration once with (old, f) when f differs from
\* old, and no callback when f is old; no invocation carries tag.
C2_SetLocaleFallsBack ==
    [][\A tag \in Tags :
         \A i \in 1..Len(ChainOf(tag)) :
           (/\ SetLocaleCalled(tag)
            /\ NotFound(tag)
            /\ Loadable(ChainOf(tag)[i])
            /\ \A j \in 1..(i - 1) : NotFound(ChainOf(tag)[j]))
           => LET f == ChainOf(tag)[i]
              IN /\ result'.ret = Return(None)
                 /\ _current_locale' = f
                 /\ _fallback_locales' = ChainOf(f)
                 /\ notified' = IF f # _current_locale
                                THEN NotifyAll(_current_locale, f) ELSE <<>>
                 /\ \A n \in 1..Len(notified') : notified'[n].new # tag]_vars

\* C2 happens: set_locale found no source for the tag, committed a later locale
\* of the chain, and every registration was invoked with that locale.
C2_Witness ==
    /\ result.op = "set_locale"
    /\ result.ret = Return(None)
    /\ Len(resolved) >= 2
    /\ resolved[1] = result.locale
    /\ _current_locale = resolved[Len(resolved)]
    /\ _current_locale # result.locale
    /\ Len(notified) = MaxCallbacks
    /\ \A n \in 1..Len(notified) : notified[n].new = _current_locale

\* C3: a set_locale that commits a locale different from the one that was current
\* invokes every registration once, in the call, with (previous, committed); one
\* that raises, or commits the locale that was current, invokes no callback.
C3_NotifiedIffChanged ==
    [][\A tag \in Tags :
         SetLocaleCalled(tag)
         => notified' = IF result'.ret.kind = "return"
                           /\ _current_locale' # _current_locale
                        THEN NotifyAll(_current_locale, _current_locale')
                        ELSE <<>>]_vars

\* C3 happens: a set_locale changed the locale and invoked two registrations.
C3_Witness ==
    /\ result.op = "set_locale"
    /\ result.ret = Return(None)
    /\ Len(notified) = 2
    /\ notified = NotifyAll(notified[1].old, _current_locale)
    /\ notified[1].old # _current_locale

\* C4: when a callback invoked by set_locale raises, set_locale still returns,
\* the locale the callbacks were told and its chain are committed, and every
\* registration was invoked for the change.
C4_CallbackFaultSwallowed ==
    [][\A tag \in Tags :
         (/\ SetLocaleCalled(tag)
          /\ \E n \in 1..Len(notified') : notified'[n].callback = CallbackRaises)
         => /\ result'.ret = Return(None)
            /\ _current_locale' = notified'[1].new
            /\ _fallback_locales' = ChainOf(_current_locale')
            /\ notified' = NotifyAll(_current_locale, _current_locale')]_vars

\* C4 happens: the first registration raised, and the one after it was invoked.
C4_Witness ==
    /\ result.op = "set_locale"
    /\ result.ret = Return(None)
    /\ Len(notified) = 2
    /\ notified[1].callback = CallbackRaises
    /\ notified[2].callback = CallbackOk
    /\ notified[2].new = _current_locale
\* What the document load_locale_file(locale) returns holds at key, None when
\* it holds nothing there.
ValueIn(locale, key) == _get_nested_value(LoadEnds(locale).value, key)
\* The load of locale returns a document that has key.
Has(locale, key) == Loadable(locale) /\ ValueIn(locale, key) # None
\* A miss of get_text: no source for locale, or a document without key.
Miss(locale, key) ==
    IF Loadable(locale) THEN ValueIn(locale, key) = None ELSE NotFound(locale)

\* The locales get_text consults without an override, in order.
LookupOrder == <<get_current_locale>> \o _fallback_locales

\* This step is the call get_text(key, default, locale) on a constructed engine.
GetTextCalled(key, default, locale) ==
    /\ Ready
    /\ result'.op = "get_text"
    /\ result'.key = key
    /\ result'.default = default
    /\ result'.locale = locale

Supplied == {None, DefaultText}

\* C5: get_text(key) without a locale returns the value of the first locale of
\* <<current locale>> \o _fallback_locales whose document has key, the locales
\* before it being misses; and whenever a locale of that order has key, a call
\* that returns returns the value of the first locale that has it.
C5_FirstLocaleWithKeyWins ==
    [][\A key \in Keys, default \in Supplied :
         \A i \in 1..Len(LookupOrder) :
           (/\ GetTextCalled(key, default, NoneTag)
            /\ Has(LookupOrder[i], key)
            /\ \A j \in 1..(i - 1) : ~Has(LookupOrder[j], key))
           => /\ (\A j \in 1..(i - 1) : Miss(LookupOrder[j], key))
                   => result'.ret = Return(PyStr(ValueIn(LookupOrder[i], key)))
              /\ result'.ret.kind = "return"
                   => result'.ret = Return(PyStr(ValueIn(LookupOrder[i], key)))]_vars

\* C5 happens: the current locale's document lacks the key, a fallback locale
\* after a locale without source has it, and get_text returned that value.
C5_Witness ==
    /\ result.op = "get_text"
    /\ result.locale = NoneTag
    /\ Loadable(_current_locale)
    /\ ~Has(_current_locale, result.key)
    /\ \E i \in 2..Len(_fallback_locales) :
          /\ \A j \in 1..(i - 1) : NotFound(_fallback_locales[j])
          /\ Has(_fallback_locales[i], result.key)
          /\ result.ret = Return(PyStr(ValueIn(_fallback_locales[i], result.key)))

\* The cache entry of locale is the same before and after the step.
SameEntry(locale) ==
    /\ (locale \in DOMAIN _cache') = (locale \in DOMAIN _cache)
    /\ (locale \in DOMAIN _cache_timestamps') = (locale \in DOMAIN _cache_timestamps)
    /\ locale \in DOMAIN _cache => _cache'[locale] = _cache[locale]
    /\ locale \in DOMAIN _cache_timestamps
          => _cache_timestamps'[locale] = _cache_timestamps[locale]

\* C6: get_text(key, locale=L) resolves no source and touches no cache entry but
\* that of L; it returns the value L's document has at key, and on a miss in L
\* the default, or raises TranslationKeyError(key, L) when there is none,
\* whatever the fallback locales hold.
C6_OverrideNeverFallsBack ==
    [][\A key \in Keys, default \in Supplied, L \in Overrides :
         GetTextCalled(key, default, L)
         => /\ Range(resolved') \subseteq {L}
            /\ \A l \in (DOMAIN _cache \cup DOMAIN _cache') \ {L} : SameEntry(l)
            /\ Has(L, key) => result'.ret = Return(PyStr(ValueIn(L, key)))
            /\ Miss(L, key)
                  => result'.ret = IF default # None THEN Return(default)
                                   ELSE Raise(TranslationKeyError(key, L))]_vars

\* C6 happens: get_text with an override missed in L and raised for L, while a
\* locale of _fallback_locales has the key.
C6_Witness ==
    /\ result.op = "get_text"
    /\ result.locale \in Overrides
    /\ result.locale # _current_locale
    /\ Miss(result.locale, result.key)
    /\ \E l \in Range(_fallback_locales) : l # result.locale /\ Has(l, result.key)
    /\ result.ret = Raise(TranslationKeyError(result.key, result.locale))

\* The locales get_text(key, locale=locale) consults.
ConsultedFor(locale) == IF locale = NoneTag THEN Range(LookupOrder) ELSE {locale}

\* C7: when every locale get_text consults is a miss, it returns the default if
\* one was given and otherwise raises TranslationKeyError(key, target), target
\* being the override or else the current locale; and a get_text that was given a
\* default never raises TranslationKeyError.
C7_TotalMiss ==
    [][\A key \in Keys, default \in Supplied, locale \in {NoneTag} \cup Overrides :
         GetTextCalled(key, default, locale)
         => /\ (\A l \in ConsultedFor(locale) : Miss(l, key))
                 => result'.ret =
                      IF default # None THEN Return(default)
                      ELSE Raise(TranslationKeyError(
                                   key, IF locale # NoneTag THEN locale
                                        ELSE _current_locale))
            /\ default # None => result'.ret.exc.type # "TranslationKeyError"]_vars

\* C7 happens: without override and without default, the current locale's
\* document and every fallback missed, and get_text raised for the current locale.
C7_Witness ==
    /\ result.op = "get_text"
    /\ result.locale = NoneTag
    /\ result.default = None
    /\ Loadable(_current_locale)
    /\ Len(_fallback_locales) >= 2
    /\ \A l \in Range(LookupOrder) : Miss(l, result.key)
    /\ result.ret = Raise(TranslationKeyError(result.key, _current_locale))

\* C8 as stated: in every state of a constructed engine has_key(key, locale)
\* returns True exactly when get_text(key, locale=locale) returns a value, and
\* False exactly when it does not.
C8_AsStated ==
    phase = "running" =>
      \A key \in Keys, locale \in {NoneTag} \cup Overrides :
        LET h == has_key(key, locale).ret
            g == get_text(key, None, locale).ret
        IN /\ (h = Return(PyBool(TRUE))) = (g.kind = "return")
           /\ (h = Return(PyBool(FALSE))) = (g.kind # "return")

\* C8: in every state of a constructed engine has_key(key, locale) returns True
\* exactly when get_text(key, locale=locale) returns a value, returns False
\* exactly when it raises TranslationKeyError, and raises the LocaleFileError of
\* get_text exactly when get_text raises one.
C8_HasKeyFollowsGetText ==
    phase = "running" =>
      \A key \in Keys, locale \in {NoneTag} \cup Overrides :
        LET h == has_key(key, locale).ret
            g == get_text(key, None, locale).ret
        IN /\ (h = Return(PyBool(TRUE))) = (g.kind = "return")
           /\ (h = Return(PyBool(FALSE))) = (g.exc.type = "TranslationKeyError")
           /\ (h.kind = "raise") = (g.exc.type = "LocaleFileError")
           /\ h.kind = "raise" => h = g

\* C8 happens: has_key returned False where get_text raises TranslationKeyError.
C8_Witness ==
    /\ result.op = "has_key"
    /\ result.ret = Return(PyBool(FALSE))
    /\ Loadable(_current_locale)
    /\ get_text(result.key, None, result.locale).ret
         = Raise(TranslationKeyError(result.key,
                                     IF result.locale # NoneTag THEN result.locale
                                     ELSE _current_locale))
\* The cache holds an entry for locale whose age is below the timeout.
Fresh(locale) ==
    /\ locale \in DOMAIN _cache
    /\ locale \in DOMAIN _cache_timestamps
    /\ now - _cache_timestamps[locale] < cache_timeout

\* This step is the call op(locale) on the file manager.
CacheCalled(op, locale) ==
    /\ Ready
    /\ result'.op = op
    /\ result'.locale = locale

\* C9: load_locale_file(locale) returns the stored document, resolves no source
\* and leaves both maps alone when the entry is fresh (it exists and
\* now - timestamp < cache_timeout), and only then; otherwise it resolves the
\* source of locale once and, when that succeeds, stores the document with
\* timestamp now and returns it.  With a timeout of 0 it always resolves.
C9_CacheGet ==
    [][\A locale \in CacheLocales :
         CacheCalled("load_locale_file", locale)
         => /\ (resolved' = <<>>) = Fresh(locale)
            /\ cache_timeout = 0 => resolved' = <<locale>>
            /\ IF Fresh(locale)
               THEN /\ result'.ret = Return(_cache[locale])
                    /\ UNCHANGED cacheVars
               ELSE /\ resolved' = <<locale>>
                    /\ result'.ret = _load_from_source(locale)
                    /\ IF _load_from_source(locale).kind = "return"
                       THEN /\ _cache' = Put(_cache, locale,
                                             _load_from_source(locale).value)
                            /\ _cache_timestamps' = Put(_cache_timestamps, locale, now)
                       ELSE UNCHANGED cacheVars]_vars

\* C9 happens: an entry one tick old, below the timeout, was returned without
\* resolution although the file now holds another document.
C9_Witness ==
    /\ result.op = "load_locale_file"
    /\ result.locale \in DOMAIN _cache
    /\ now - _cache_timestamps[result.locale] = 1
    /\ resolved = <<>>
    /\ result.ret = Return(_cache[result.locale])
    /\ _load_from_source(result.locale).kind = "return"
    /\ _load_from_source(result.locale) # result.ret

\* C10: is_locale_cached(locale) returns True exactly when an entry of locale
\* exists and its age is below the timeout; the call resolves no source and
\* leaves both maps as they were.
C10_IsCached ==
    [][\A locale \in CacheLocales :
         CacheCalled("is_locale_cached", locale)
         => /\ result'.ret = Return(PyBool(Fresh(locale)))
            /\ resolved' = <<>>
            /\ UNCHANGED cacheVars]_vars

\* C10 happens: is_locale_cached returned False for a locale whose entry is in
\* the cache, at an age that has reached a timeout above 0.
C10_Witness ==
    /\ result.op = "is_locale_cached"
    /\ result.locale \in DOMAIN _cache
    /\ cache_timeout > 0
    /\ now - _cache_timestamps[result.locale] = cache_timeout
    /\ result.ret = Return(PyBool(FALSE))

\* C11: clear_cache(locale) removes the entry and the timestamp of locale and
\* leaves those of every other locale as they were; clear_cache() removes every
\* entry and timestamp; is_locale_cached answers False for a locale without a
\* valid entry; and a locale without a valid entry gets one only in a step that
\* read its source with success and stored that document - also while a
\* load_locale_file of another thread is between its cache check and its store.
C11_Invalidate ==
    [][/\ \A locale \in ThreadLocales :
            CacheCalled("clear_cache", locale)
            => /\ locale \notin DOMAIN _cache'
               /\ locale \notin DOMAIN _cache_timestamps'
               /\ \A other \in ThreadLocales \ {locale} : SameEntry(other)
               /\ DOMAIN _cache' \subseteq DOMAIN _cache
               /\ DOMAIN _cache_timestamps' \subseteq DOMAIN _cache_timestamps
       /\ CacheCalled("clear_cache", NoneTag)
            => /\ _cache' = EmptyMap
               /\ _cache_timestamps' = EmptyMap
       /\ \A locale \in ThreadLocales :
            /\ CacheCalled("is_locale_cached", locale) /\ ~Fresh(locale)
                 => result'.ret = Return(PyBool(FALSE))
            /\ ~Fresh(locale) /\ Fresh(locale)'
                 => /\ ~Ready'
                    /\ InSeq(locale, resolved')
                    /\ _load_from_source(locale).kind = "return"
                    /\ _cache'[locale] = _load_from_source(locale).value]_vars

\* C11 happens: clear_cache("en-US") has returned with the entry of "en" still
\* in place and that of "en-US" gone, and a load_locale_file("en-US") of another
\* thread has taken the lock after it and is reading the source.
C11_Witness ==
    /\ result.op = "clear_cache"
    /\ result.locale = EnUS
    /\ EnUS \notin DOMAIN _cache
    /\ En \in DOMAIN _cache
    /\ En \in DOMAIN _cache_timestamps
    /\ fetcher # NotFetching
    /\ fetcher.locale = EnUS
    /\ _lock = "fetcher"

NoRepeat(s) == \A i, j \in 1..Len(s) : s[i] = s[j] => i = j

\* C12: for every tag t and every configured default locale, the chain computed
\* for t holds no tag twice and does not hold t, and so does the chain an engine
\* has committed for its current locale; the chain computed for "en-US" holds
\* "en" and does not hold "en-US".
C12_ChainWellFormed ==
    /\ \A t \in ChainTags :
          /\ NoRepeat(ChainOf(t))
          /\ ~InSeq(t, ChainOf(t))
          /\ NoRepeat(get_fallback_locales(t))
          /\ ~InSeq(t, get_fallback_locales(t))
    /\ InSeq(En, ChainOf(EnUS))
    /\ ~InSeq(EnUS, ChainOf(EnUS))
    /\ InSeq(En, get_fallback_locales(EnUS))
    /\ ~InSeq(EnUS, get_fallback_locales(EnUS))
    /\ phase = "running"
          => /\ NoRepeat(_fallback_locales)
             /\ ~InSeq(_current_locale, _fallback_locales)

\* C12 happens: set_locale("en-US") has committed, on an engine whose default
\* locale is "en-US" too, the chain "en", "en-GB".
C12_Witness ==
    /\ result.op = "set_locale"
    /\ result.locale = EnUS
    /\ default_locale = EnUS
    /\ _current_locale = EnUS
    /\ _fallback_locales = <<En, EnGB>>

\* s without t and without the later occurrences of a tag, in the order of s.
RECURSIVE FirstsWithout(_, _, _)
FirstsWithout(s, t, seen) ==
    IF s = <<>> THEN seen
    ELSE IF Head(s) = t \/ InSeq(Head(s), seen)
         THEN FirstsWithout(Tail(s), t, seen)
         ELSE FirstsWithout(Tail(s), t, Append(seen, Head(s)))

\* The language-only tag of t and the regional variants the table has for it.
LanguageOf(t) == <<t[1]>>
VariantsOf(t) == IF t[1] \in DOMAIN common_variants THEN common_variants[t[1]] ELSE <<>>

\* This step is a set_locale(tag), or the one of the constructor, that returned.
Committed ==
    /\ Ready
    /\ result'.op \in {"set_locale", "__init__"}
    /\ result'.ret.kind = "return"

\* C13 as stated: the chain set_locale commits for a tag is the language-only
\* tag, the table's regional variants of that language other than the tag, and
\* the configured default locale, and nothing else (the tag itself and repeats
\* left out, as C12 has them); it ends with the default locale unless that is
\* the tag.
C13_AsStated ==
    [][Committed
       => /\ _fallback_locales' =
               FirstsWithout(<<LanguageOf(_current_locale')>>
                               \o VariantsOf(_current_locale') \o <<default_locale>>,
                             _current_locale', <<>>)
          /\ default_locale # _current_locale'
               => _fallback_locales'[Len(_fallback_locales')] = default_locale]_vars

\* C13: the chain set_locale commits for a tag is, in this order, without the
\* tag itself and without repeats: for a tag with a region the language-only tag
\* and the table's regional variants of that language, and for every tag "en-US",
\* "en" and the configured default locale.
C13_ChainCommitted ==
    [][Committed
       => _fallback_locales' =
            FirstsWithout((IF HasDash(_current_locale')
                           THEN <<LanguageOf(_current_locale')>>
                                  \o VariantsOf(_current_locale')
                           ELSE <<>>) \o <<EnUS, En, default_locale>>,
                          _current_locale', <<>>)]_vars

\* C13 happens: set_locale("es-MX") on an engine whose default locale is "en-US"
\* has committed a chain that holds "en-US" and "en", and ends with "en".
C13_Witness ==
    /\ result.op = "set_locale"
    /\ result.locale = EsMX
    /\ default_locale = EnUS
    /\ _current_locale = EsMX
    /\ _fallback_locales = <<<<"es">>, EsES, EnUS, En>>

\* The candidates of locale in the order the specification gives them.
DirectoryFiles(locale, ext) ==
    <<Path(locale, TRUE, locale, ext), Path(locale, TRUE, <<"locale">>, ext),
      Path(locale, TRUE, <<"translations">>, ext)>>
Candidates(locale) ==
    <<Path(locale, FALSE, locale, "json"), Path(locale, FALSE, locale, "yaml"),
      Path(locale, FALSE, locale, "yml"), Path(locale, FALSE, locale, "xml")>>
    \o DirectoryFiles(locale, "json") \o DirectoryFiles(locale, "yaml")
    \o DirectoryFiles(locale, "yml") \o DirectoryFiles(locale, "xml")

\* A candidate is absent: no such file, or - under a remote base - no such URL
\* or one answered with a non-success status.  It exists: a body can be read.
Absent(p) == IF p \in DOMAIN files THEN _is_remote /\ files[p] = HttpStatusError ELSE TRUE
Exists(p) == IF p \in DOMAIN files THEN files[p] \in Contents ELSE FALSE
\* i is the first candidate of locale that exists, all before it being absent.
FirstExisting(locale, i) ==
    /\ Exists(Candidates(locale)[i])
    /\ \A j \in 1..(i - 1) : Absent(Candidates(locale)[j])

\* C14: load_locale_file(locale) that reads the source tries the candidates in
\* the stated order; when the first existing candidate parses it returns that
\* candidate's document and has tried the candidates up to it and none after
\* it; when every candidate is absent it raises LocaleNotFoundError(locale)
\* after trying all sixteen.
C14_ResolveOrder ==
    [][CacheCalled("load_locale_file", EnUS)
       => /\ \A i \in 1..Len(Candidates(EnUS)) :
               FirstExisting(EnUS, i) /\ files[Candidates(EnUS)[i]] # Malformed
               => /\ result'.ret = Return(files[Candidates(EnUS)[i]].parsesTo)
                  /\ tried' = SubSeq(Candidates(EnUS), 1, i)
          /\ (\A i \in 1..Len(Candidates(EnUS)) : Absent(Candidates(EnUS)[i]))
               => /\ result'.ret = Raise(LocaleNotFoundError(EnUS))
                  /\ tried' = Candidates(EnUS)]_vars

\* C14 happens: with the flat json and xml files absent, the document of
\* en-US/translations.json was returned although en-US/en-US.yaml exists with
\* another document, and seven candidates were tried.
C14_Witness ==
    /\ result.op = "load_locale_file"
    /\ ~_is_remote
    /\ DOMAIN files = {Path(EnUS, TRUE, <<"translations">>, "json"),
                       Path(EnUS, TRUE, EnUS, "yaml")}
    /\ files[Path(EnUS, TRUE, <<"translations">>, "json")] = TextOf(DocA)
    /\ files[Path(EnUS, TRUE, EnUS, "yaml")] = TextOf(DocB)
    /\ result.ret = Return(DocA)
    /\ Len(tried) = 7
    /\ tried[7] = Path(EnUS, TRUE, <<"translations">>, "json")

\* C15: when the first existing candidate of locale is malformed,
\* load_locale_file(locale) raises LocaleFileError for that candidate, has tried
\* the candidates up to it and none after it, and leaves both maps of the cache
\* as they were.
C15_MalformedStops ==
    [][CacheCalled("load_locale_file", EnUS)
       => \A i \in 1..Len(Candidates(EnUS)) :
            FirstExisting(EnUS, i) /\ files[Candidates(EnUS)[i]] = Malformed
            => /\ result'.ret = Raise(LocaleFileError(Candidates(EnUS)[i]))
               /\ tried' = SubSeq(Candidates(EnUS), 1, i)
               /\ UNCHANGED cacheVars]_vars

\* C15 happens: en-US.json is malformed, en-US.xml exists and is well-formed,
\* the load raised LocaleFileError for en-US.json after trying it alone, and the
\* cache holds no entry of en-US.
C15_Witness ==
    /\ result.op = "load_locale_file"
    /\ Path(EnUS, FALSE, EnUS, "json") \in DOMAIN files
    /\ Path(EnUS, FALSE, EnUS, "xml") \in DOMAIN files
    /\ files[Path(EnUS, FALSE, EnUS, "json")] = Malformed
    /\ files[Path(EnUS, FALSE, EnUS, "xml")] = TextOf(DocA)
    /\ result.ret = Raise(LocaleFileError(Path(EnUS, FALSE, EnUS, "json")))
    /\ tried = <<Path(EnUS, FALSE, EnUS, "json")>>
    /\ EnUS \notin DOMAIN _cache

\* A fetch of p meets a transport fault: no connection, or no answer in time.
TransportFault(p) ==
    IF p \in DOMAIN files THEN files[p] \in {ConnectionFault, TimeoutFault} ELSE FALSE

\* C16 as stated: under a remote base, when the candidates before i are absent
\* (no such URL, or a non-success status) and the fetch of candidate i meets a
\* transport fault, load_locale_file raises at once - an error other than
\* LocaleNotFoundError - and no candidate after i is tried.
C16_AsStated ==
    [][CacheCalled("load_locale_file", EnUS) /\ _is_remote
       => \A i \in 1..Len(Candidates(EnUS)) :
            /\ TransportFault(Candidates(EnUS)[i])
            /\ \A j \in 1..(i - 1) : Absent(Candidates(EnUS)[j])
            => /\ result'.ret.kind = "raise"
               /\ result'.ret.exc.type # "LocaleNotFoundError"
               /\ tried' = SubSeq(Candidates(EnUS), 1, i)]_vars

\* The first half of C16: a candidate answered with a non-success status is
\* passed over, and the candidate after it is tried.
C16_StatusIsAbsent ==
    [][CacheCalled("load_locale_file", EnUS) /\ _is_remote
       => \A i \in 1..(Len(Candidates(EnUS)) - 1) :
            /\ Candidates(EnUS)[i] \in DOMAIN files
            /\ files[Candidates(EnUS)[i]] = HttpStatusError
            /\ \A j \in 1..(i - 1) : Absent(Candidates(EnUS)[j])
            => /\ Len(tried') > i
               /\ tried'[i + 1] = Candidates(EnUS)[i + 1]]_vars

\* What the code does with a transport fault: the fetch of en-US.json found no
\* connection, and the load went on to en-US.xml and returned its document.
C16_Witness ==
    /\ result.op = "load_locale_file"
    /\ _is_remote
    /\ Path(EnUS, FALSE, EnUS, "json") \in DOMAIN files
    /\ files[Path(EnUS, FALSE, EnUS, "json")] = ConnectionFault
    /\ Path(EnUS, FALSE, EnUS, "xml") \in DOMAIN files
    /\ files[Path(EnUS, FALSE, EnUS, "xml")] = TextOf(DocA)
    /\ result.ret = Return(DocA)
    /\ Len(tried) = 4

\* This step is one of a stop() call; with it the call returns.
StopSteps == stopper' # stopper
StopReturns == stopper = "clear_cache" /\ stopper' = NotStopping

\* C17: every step of stop() leaves the event set and the current locale and
\* the fallback chain as they were; stop() joins nothing when there is no live
\* thread (none was started, or it has ended); and whatever the state it was
\* called in - the event set already, the thread ended, no thread - it returns
\* None and leaves both maps of the cache empty.
C17_StopIdempotent ==
    [][/\ StopSteps
            => /\ _stop_update_thread'
               /\ UNCHANGED engineVars
               /\ notified' = notified
       /\ stopper = NotStopping /\ StopSteps /\ ~is_alive(_update_thread)
            => stopper' = "clear_cache"
       /\ StopReturns
            => /\ result' = Call("stop", NoneTag, <<>>, None, Return(None))
               /\ _cache' = EmptyMap
               /\ _cache_timestamps' = EmptyMap
               /\ _stop_update_thread']_vars

\* C17 happens: a stop() has returned and left the cache empty and the event
\* set, and a stop() called again - with the thread ended, or with none ever
\* started - has gone to its clear_cache() without a join; the locale is the
\* one the constructor committed.
C17_Witness ==
    /\ result.op = "stop"
    /\ stopper = "clear_cache"
    /\ _stop_update_thread
    /\ _update_thread \in {Exited, NoThread}
    /\ _cache = EmptyMap
    /\ _current_locale = EnUS
    /\ _fallback_locales = ChainOf(EnUS)

\* C18 as stated, its safety part: with the event set the thread starts no new
\* pass of its loop, and when stop() returns the thread has ended.
C18_AsStated ==
    [][/\ _stop_update_thread => ~(_update_thread = Waiting /\ _update_thread' = Checking)
       /\ StopReturns => ~is_alive(_update_thread')]_vars

\* The parts of C18 that hold: with the event set the thread starts no new pass
\* of its loop, and under ThreadFairSpec it ends.
C18_NoNewTick ==
    [][_stop_update_thread => ~(_update_thread = Waiting /\ _update_thread' = Checking)]_vars
C18_EventuallyEnds == _stop_update_thread ~> ~is_alive(_update_thread)

\* What the code does: stop() has returned, and the thread is still in the body
\* of its loop, where it waited for the lock that a source read held while
\* join(timeout=1.0) ran out.
C18_Witness ==
    /\ result.op = "stop"
    /\ stopper = NotStopping
    /\ _stop_update_thread
    /\ _update_thread = Checking

\* C19: a pass of the update thread's loop - the wait ending, get_current_locale
\* and is_locale_cached - leaves the store, the cache entries and timestamps,
\* the current locale and the fallback chain as they were, resolves no source,
\* tries no candidate and invokes no callback.
C19_TickChangesNothing ==
    [][_update_thread # NoThread /\ _update_thread' # _update_thread
       => /\ UNCHANGED <<cacheVars, engineVars, envVars, _change_callbacks>>
          /\ UNCHANGED <<resolved, tried, notified, result>>]_vars

\* C19 happens: the thread is in the body of its loop and free to take the
\* lock, the current locale has no cache entry and its file exists.
C19_Witness ==
    /\ _update_thread = Checking
    /\ _lock = Free
    /\ _current_locale = EnUS
    /\ EnUS \notin DOMAIN _cache
    /\ FlatJson(EnUS) \in DOMAIN files

\* The locale reload_locale(locale) reloads: locale, or the current one.
ReloadTarget(locale) ==
    IF locale # NoneTag THEN locale
    ELSE IF _current_locale # NoneTag THEN _current_locale ELSE default_locale

\* C20: reload_locale and clear_cache leave the current locale, the fallback
\* chain and the callback list as they were and invoke no callback, whether
\* they return or raise; reload_locale resolves the source of its target once,
\* also when the target has a valid entry, and then either stores the document
\* with the timestamp now and returns None, or raises the resolver's error and
\* leaves the cache as it was.
C20_ReloadAndClearFrame ==
    [][\A locale \in {NoneTag, EnUS, EnGB} :
         /\ CacheCalled("reload_locale", locale)
              => /\ UNCHANGED <<engineVars, _change_callbacks>>
                 /\ notified' = <<>>
                 /\ resolved' = <<ReloadTarget(locale)>>
                 /\ IF _load_from_source(ReloadTarget(locale)).kind = "return"
                    THEN /\ result'.ret = Return(None)
                         /\ ReloadTarget(locale) \in DOMAIN _cache'
                         /\ _cache'[ReloadTarget(locale)] =
                               _load_from_source(ReloadTarget(locale)).value
                         /\ _cache_timestamps'[ReloadTarget(locale)] = now
                    ELSE /\ result'.ret = _load_from_source(ReloadTarget(locale))
                         /\ UNCHANGED cacheVars
         /\ CacheCalled("clear_cache", locale)
              => /\ UNCHANGED <<engineVars, _change_callbacks>>
                 /\ notified' = <<>>
                 /\ resolved' = <<>>
                 /\ result'.ret = Return(None)]_vars

\* C20 happens: on an engine with a callback registered, reload_locale() of the
\* current locale "en-US" returned after the clock had advanced, read the source
\* and stored the document the file holds now, DocB, with the timestamp now.
C20_Witness ==
    /\ result.op = "reload_locale"
    /\ result.locale = NoneTag
    /\ result.ret = Return(None)
    /\ _change_callbacks # <<>>
    /\ notified = <<>>
    /\ _current_locale = EnUS
    /\ resolved = <<EnUS>>
    /\ now > 0
    /\ _cache[EnUS] = DocB
    /\ _cache_timestamps[EnUS] = now

\* What a lookup of key finds in the sources as they are now, the locales of
\* order taken in turn: the value of the first locale whose source has the key,
\* a source without the key or an absent source being passed over; the fault of
\* a source that does not parse; and at the end of order the default, or
\* TranslationKeyError for target when there is none.
RECURSIVE SourceLookup(_, _, _, _)
SourceLookup(order, key, default, target) ==
    IF order = <<>>
    THEN IF default # None THEN Return(default)
         ELSE Raise(TranslationKeyError(key, target))
    ELSE Let(_load_from_source(Head(order)), LAMBDA source :
           IF source.kind = "raise"
           THEN IF source.exc.type = "LocaleNotFoundError"
                THEN SourceLookup(Tail(order), key, default, target)
                ELSE source
           ELSE IF _get_nested_value(source.value, key) # None
                THEN Return(PyStr(_get_nested_value(source.value, key)))
                ELSE SourceLookup(Tail(order), key, default, target))

\* Every cache entry is the document its source holds now.
CacheInSync == \A l \in DOMAIN _cache : _load_from_source(l) = Return(_cache[l])

\* C21: clear_cache() leaves the cache empty, and a get_text(key) called on an
\* empty cache returns what the sources of the current locale and its chain hold
\* at that moment; a get_text(key) called on a cache whose entries equal their
\* sources returns the same, so that with an unchanged source the value after
\* the clear is the value before it.
C21_ClearThenGetText ==
    [][/\ CacheCalled("clear_cache", NoneTag) => _cache' = EmptyMap
       /\ \A key \in Keys, default \in Supplied :
            /\ GetTextCalled(key, default, NoneTag)
            /\ IF _cache = EmptyMap THEN TRUE ELSE CacheInSync
            => result'.ret = SourceLookup(LookupOrder, key, default, get_current_locale)]_vars

\* C21 happens: on an empty cache, get_text("nested.message") of an engine on
\* "es-ES" read the sources again and returned the value that the source of the
\* fallback locale "en-US" - and no other source of the chain - holds now.
C21_Witness ==
    /\ result.op = "get_text"
    /\ result.locale = NoneTag
    /\ result.key = KeyNestedMessage
    /\ _current_locale = EsES
    /\ FlatJson(En) \notin DOMAIN files
    /\ FlatJson(EnUS) \in DOMAIN files
    /\ files[FlatJson(EnUS)] = TextOf(DocA)
    /\ resolved # <<>>
    /\ resolved[1] = EsES
    /\ InSeq(EnUS, resolved)
    /\ cache_timeout > 0
    /\ \A l \in DOMAIN _cache : InSeq(l, resolved)
    /\ result.ret = Return(Str("Nested message"))

C23_AsStated ==
    [][result.op = "get_text:152" /\ result'.op = "get_text"
       => _fallback_locales = _get_fallback_locales(default_locale, result.locale)]_vars

\* C23 happens: a get_text that read en-US as its locale stands before line
\* 152 while the engine holds the commit of es-ES, whose chain has es-MX.
C23_Witness ==
    /\ result.op = "get_text:152"
    /\ result.locale = EnUS
    /\ _current_locale = EsES
    /\ _fallback_locales = _get_fallback_locales(default_locale, EsES)
    /\ InSeq(EsMX, _fallback_locales)
    /\ ~InSeq(EsMX, _get_fallback_locales(default_locale, EnUS))

\* What a caller sees of the current locale through get_text(key): the value of
\* the current locale's document when it has key, and the current locale named
\* in the TranslationKeyError when nothing has key.
ObservesCurrent(key) ==
    Let(get_text(key, None, NoneTag).ret, LAMBDA r :
      /\ Has(get_current_locale, key)
         => r = Return(PyStr(ValueIn(get_current_locale, key)))
      /\ IF r.kind = "raise"
         THEN r.exc.type = "TranslationKeyError" => r.exc.locale = get_current_locale
         ELSE TRUE)

\* C24: when set_locale(tag) has returned, get_current_locale gives the locale
\* that call committed - tag when tag was loadable, a locale of tag's chain
\* otherwise - and get_text without override resolves against it; no call other
\* than set_locale changes the current locale or its chain, so the same holds
\* for the calls made next, and every get_text made resolves against the locale
\* get_current_locale gives.
C24_NextCallsObserveCommit ==
    [][/\ \A tag \in Tags :
            SetLocaleCalled(tag) /\ result'.ret.kind = "return"
            => /\ get_current_locale' = _current_locale'
               /\ Loadable(tag) => get_current_locale' = tag
               /\ InSeq(get_current_locale', <<tag>> \o ChainOf(tag))
               /\ (\A key \in Keys : ObservesCurrent(key))'
       /\ result'.op \notin {"set_locale", "__init__"}
            => UNCHANGED <<_current_locale, _fallback_locales>>
       /\ \A key \in Keys, default \in Supplied :
            GetTextCalled(key, default, NoneTag)
            => /\ Has(get_current_locale, key)
                  => result'.ret = Return(PyStr(ValueIn(get_current_locale, key)))
               /\ IF result'.ret.kind = "raise"
                  THEN result'.ret.exc.type = "TranslationKeyError"
                       => result'.ret.exc.locale = get_current_locale
                  ELSE TRUE]_vars

\* C24 happens: set_locale(es-ES) has returned on an engine whose default is
\* en-US, es-ES is the current locale, and its document is the one with "Hola".
C24_Witness ==
    /\ result.op = "set_locale"
    /\ result.locale = EsES
    /\ result.ret.kind = "return"
    /\ default_locale = EnUS
    /\ _current_locale = EsES
    /\ get_current_locale = EsES
    /\ get_text(KeyGreeting, None, NoneTag).ret = Return(Str("Hola"))

\* C25: a load_locale_file that is between taking and releasing the lock is
\* the holder of the lock and the only thread inside: every step of
\* is_locale_cached, get_cached_locales, clear_cache, of the update thread's
\* check (one that raises aside: it has asked nothing of the cache) and of
\* another load's entry is taken with the lock free, and every
\* write of either map is made by the holder or, with the lock free, by
\* clear_cache (called directly or by stop) or the constructor's load.  Whenever
\* the lock is free the two maps have the same key set, and get_cached_locales
\* lists each key once.
C25_OneThreadInside ==
    /\ []((fetcher # NotFetching) <=> (_lock = "fetcher"))
    /\ [](_lock = Free => DOMAIN _cache = DOMAIN _cache_timestamps)
    /\ [][/\ result'.op \in {"is_locale_cached", "get_cached_locales", "clear_cache"}
             /\ result # result'
             => _lock = Free /\ _lock' = Free
          /\ _update_thread = Checking /\ _update_thread' # Checking /\ ~TaskFault
             => _lock = Free
          /\ fetcher = NotFetching /\ fetcher' # NotFetching => _lock = Free
          /\ <<_cache, _cache_timestamps>>' # <<_cache, _cache_timestamps>>
             => IF _lock = Free THEN result'.op \in {"clear_cache", "stop", "__init__"}
                ELSE fetcher # NotFetching /\ result'.locale = fetcher.locale
          /\ CacheCalled("get_cached_locales", NoneTag)
             => Let(result'.ret.value.kids, LAMBDA keys :
                  /\ {keys[i].text : i \in DOMAIN keys} = DOMAIN _cache
                  /\ Len(keys) = Cardinality(DOMAIN _cache))]_vars

\* C25 happens: a load_locale_file("en-US") holds the lock between lines 70 and
\* 71, with its document in _cache and no timestamp for it yet, while an entry
\* of "en" has both.
C25_Witness ==
    /\ _lock = "fetcher"
    /\ fetcher.locale = EnUS
    /\ result.op = "load_locale_file:71"
    /\ EnUS \in DOMAIN _cache
    /\ EnUS \notin DOMAIN _cache_timestamps
    /\ En \in DOMAIN _cache
    /\ En \in DOMAIN _cache_timestamps

\* A normalized tag: a lowercase language, a dash, an uppercase country (of the
\* languages and countries the tags of this model are made of).
IsNormalized(t) ==
    /\ Len(t) = 3
    /\ t[1] \in {"en", "es", "fr", "de", "xx"}
    /\ t[2] = Dash
    /\ t[3] \in {"US", "GB", "ES", "MX", "CA", "YY"}

\* C26, as stated: every key of the two maps of the cache and the locale of
\* every candidate path a call tried is a normalized language-COUNTRY tag.
C26_AsStated ==
    /\ \A l \in DOMAIN _cache \cup DOMAIN _cache_timestamps : IsNormalized(l)
    /\ \A i \in 1..Len(tried) : IsNormalized(tried[i].locale)

\* C26 happens: set_locale("de") has returned, having read locales/de.json, and
\* the cache holds an entry under the key "de".
C26_Witness ==
    /\ result.op = "set_locale"
    /\ result.locale = <<"de">>
    /\ result.ret.kind = "return"
    /\ ~IsNormalized(result.locale)
    /\ tried # <<>>
    /\ tried[1].locale = <<"de">>
    /\ <<"de">> \in DOMAIN _cache
    /\ _current_locale = <<"de">>

\* The locale get_metadata(locale) is about.
MetadataTarget(locale) == IF locale # NoneTag THEN locale ELSE get_current_locale

\* C27, as stated: get_metadata(locale) returns the meta mapping of the
\* document load_locale_file returns for the target locale, and returns None
\* whenever that load does not return a document.
C27_AsStated ==
    [][\A locale \in {NoneTag, EnUS, EnGB} :
         CacheCalled("get_metadata", locale)
         => IF Loadable(MetadataTarget(locale))
            THEN result'.ret = Return(LoadEnds(MetadataTarget(locale)).value.kids["meta"])
            ELSE result'.ret = Return(None)]_vars

\* C27 happens: get_metadata() was called on an engine whose current locale is
\* en-US while locales/en-US.json does not parse and no valid entry is cached;
\* the call raised LocaleFileError.
C27_Witness ==
    /\ result.op = "get_metadata"
    /\ result.locale = NoneTag
    /\ _current_locale = EnUS
    /\ FlatJson(EnUS) \in DOMAIN files
    /\ files[FlatJson(EnUS)] = Malformed
    /\ result.ret = Raise(LocaleFileError(FlatJson(EnUS)))

\* The value a document holds at a path of segments, from the last segment
\* back: the parent's entry for it when the parent is a dict that has it;
\* outside every value (the empty set) when it has none.
RECURSIVE ValueAt(_, _)
ValueAt(data, path) ==
    IF path = <<>> THEN {data}
    ELSE {parent.kids[path[Len(path)]] :
            parent \in {v \in ValueAt(data, SubSeq(path, 1, Len(path) - 1)) :
                          /\ v.kind = "dict"
                          /\ path[Len(path)] \in DOMAIN v.kids}}

\* The segments of a key: as many as it has dots, plus one.
Dots(key) == Cardinality({i \in 1..Len(key) : key[i] = "."})

\* C28: _get_nested_value(data, key) never raises; with the key cut at its
\* dots into segments, it returns the value data holds at that path when every
\* value on the way is a dict that has the next segment, and None otherwise;
\* "a.b.c" over {a: {b: {c: x}}} is x and over {a: {b: leaf}} it is None.
C28_DescendsBySegment ==
    [][result'.op = "_get_nested_value" /\ Ready
       => Let(split(result'.key), LAMBDA path :
            /\ Len(path) = Dots(result'.key) + 1
            /\ result'.ret.kind = "return"
            /\ IF ValueAt(_cache[EnUS], path) = {}
               THEN result'.ret.value = None
               ELSE result'.ret.value \in ValueAt(_cache[EnUS], path)
            /\ result'.key = <<"a", ".", "b", ".", "c">>
               => /\ path = <<"a", "b", "c">>
                  /\ _cache[EnUS] = Dict([a |-> Dict([b |-> Dict([c |-> Str("x")])])])
                     => result'.ret.value = Str("x")
                  /\ _cache[EnUS] = Dict([a |-> Dict([b |-> Str("leaf")])])
                     => result'.ret.value = None)]_vars

\* C28 happens: "a.b.c" was looked up in {a: {b: leaf}}, whose value at a.b is
\* not a dict, and the lookup returned None.
C28_Witness ==
    /\ result.op = "_get_nested_value"
    /\ result.key = <<"a", ".", "b", ".", "c">>
    /\ EnUS \in DOMAIN _cache
    /\ _cache[EnUS] = Dict([a |-> Dict([b |-> Str("leaf")])])
    /\ result.ret = Return(None)

\* The three renderings of one document are in the store.
Rendered ==
    {FlatJson(EnUS), Path(EnGB, FALSE, EnGB, "yaml"), Path(EsES, FALSE, EsES, "xml")}
        \subseteq DOMAIN files

\* The string leaves of a document, at any depth.
RECURSIVE Leaves_(_)
Leaves_(value) ==
    IF value.kind = "dict"
    THEN UNION {Leaves_(value.kids[k]) : k \in DOMAIN value.kids}
    ELSE {value}

\* C29, as stated: the JSON, the YAML and the XML rendering of one document
\* parse to equal documents.
C29_AsStated ==
    Rendered => /\ _load_from_source(EnUS) = _load_from_source(EnGB)
                /\ _load_from_source(EnUS) = _load_from_source(EsES)

\* What holds: the three parses are equal for every document none of whose
\* leaves is the empty string.
C29_NonEmptyLeaves ==
    Rendered /\ Str("") \notin Leaves_(_load_from_source(EnUS).value)
    => /\ _load_from_source(EnUS) = _load_from_source(EnGB)
       /\ _load_from_source(EnUS) = _load_from_source(EsES)

\* C29 happens: the document {meta: {version: "1.0.0"}, greeting: ""} is in the
\* store in the three formats and was loaded from its XML file, where greeting
\* is None; its JSON file gives the empty string.
C29_Witness ==
    /\ Rendered
    /\ result.op = "load_locale_file(force_reload)"
    /\ result.locale = EsES
    /\ result.ret = Return(Dict([meta |-> Dict([version |-> Str("1.0.0")]),
                                 greeting |-> None]))
    /\ _load_from_source(EnUS) = Return(Dict([meta |-> Dict([version |-> Str("1.0.0")]),
                                              greeting |-> Str("")]))
    /\ _load_from_source(EnGB) = _load_from_source(EnUS)

\* This step is the constructor, called with auto_detect on a system whose
\* locale is detected.
Constructed(auto_detect, detected) ==
    /\ Ready
    /\ result'.op = "__init__"
    /\ Construct(auto_detect, detected)

C31_FaultSwallowed ==
    /\ [][/\ TaskFault
             => /\ _update_thread' = Waiting
                /\ is_alive(_update_thread')
                /\ UNCHANGED <<cacheVars, engineVars, envVars, _change_callbacks>>
                /\ UNCHANGED <<callVars, _lock, _stop_update_thread>>
          /\ is_alive(_update_thread) /\ ~is_alive(_update_thread')
             => _stop_update_thread /\ _update_thread = Waiting]_vars
    /\ [](_update_thread = Waiting /\ ~_stop_update_thread => ENABLED TaskWake)

\* C31 happens: the thread is in the body of its loop while a load of another
\* thread holds the file manager's lock, so the body cannot complete its check;
\* the only way on for the thread is a fault.
C31_Witness ==
    /\ _update_thread = Checking
    /\ _lock = "fetcher"
    /\ ~_stop_update_thread
    /\ _current_locale = EnUS
    /\ ENABLED TaskFault
    /\ ~ENABLED TaskCheck

\* C32: a load_locale_file that reads a source does so holding the lock, from
\* its check of the entry to its store, and while it holds the lock no other
\* step resolves a source or begins a load; a load begins to read only when
\* the entry is not valid, so a load_locale_file(L) made after another has
\* stored L, while that entry is valid, resolves nothing and returns the stored
\* document.
C32_OneResolution ==
    /\ [](fetcher # NotFetching => _lock = "fetcher")
    /\ [][/\ _lock # Free /\ resolved' # resolved /\ resolved' # <<>>
             => /\ fetcher # NotFetching
                /\ resolved' = <<fetcher.locale>>
                /\ result'.locale = fetcher.locale
          /\ fetcher = NotFetching /\ fetcher' # NotFetching
             => /\ _lock = Free
                /\ _lock' = "fetcher"
                /\ fetcher'.force_reload \/ ~Fresh(fetcher'.locale)
          /\ \A locale \in ThreadLocales :
               CacheCalled("load_locale_file", locale) /\ Fresh(locale)
               => /\ result'.ret = Return(_cache[locale])
                  /\ resolved' = <<>>
                  /\ UNCHANGED cacheVars]_vars

\* C32 happens: a load_locale_file("en-US") was served from the cache without
\* resolving a source: the entry stored by an earlier load is valid.
C32_Witness ==
    /\ result.op = "load_locale_file"
    /\ result.locale = EnUS
    /\ resolved = <<>>
    /\ cache_timeout > 0
    /\ Fresh(EnUS)
    /\ result.ret = Return(_cache[EnUS])
    /\ _load_from_source(EnUS) = Return(_cache[EnUS])


\* C33: no thread ever holds the engine lock and the cache lock together, a
\* callback runs while its thread holds neither, and no interleaving of the
\* calls deadlocks: a thread that waits for a lock waits for another thread,
\* and that thread is about to release it, so that while any thread is in a
\* call some thread can take a step; this with callbacks that call set_locale,
\* get_text or get_current_locale themselves.
C33_LocksNeverNest ==
    /\ \A thread \in Threads :
         /\ ~(engine_lock = thread /\ _lock = thread)
         /\ pc[thread] # <<>> /\ Head(pc[thread]).do = "callback"
            => engine_lock # thread /\ _lock # thread
         /\ pc[thread] # <<>> /\ Head(pc[thread]).do = "acquire"
            => \E holder \in {IF Head(pc[thread]).lock = "engine" THEN engine_lock ELSE _lock} :
                  \/ holder = Free
                  \/ /\ holder \in Threads \ {thread}
                     /\ pc[holder] # <<>>
                     /\ Head(pc[holder]) = [do |-> "release", lock |-> Head(pc[thread]).lock,
                                            depth |-> Head(pc[holder]).depth]
    /\ (\E thread \in Threads : pc[thread] # <<>>)
       => \E thread \in Threads :
             /\ pc[thread] # <<>>
             /\ Head(pc[thread]) = [do |-> "acquire", lock |-> "engine", depth |-> Head(pc[thread]).depth]
                => engine_lock = Free
             /\ Head(pc[thread]) = [do |-> "acquire", lock |-> "cache", depth |-> Head(pc[thread]).depth]
                => _lock = Free

\* A callback of the main thread's set_locale has called set_locale again and
\* waits for the engine lock, which the worker holds, while the update checker
\* holds the cache lock.
C33_Witness ==
    /\ Len(pc["main"]) > 2
    /\ Head(pc["main"]) = [do |-> "acquire", lock |-> "cache", depth |-> 1]
    /\ \E i \in 1..Len(pc["main"]) : pc["main"][i].do = "callback"
    /\ engine_lock = "worker"
    /\ _lock = "updater"


\* C34: a load_locale_file, forced or not, that ends in LocaleNotFoundError or
\* LocaleFileError has resolved the source of its locale and leaves _cache and
\* _cache_timestamps as they were: the entry of the locale, stale or not, keeps
\* its document and its timestamp, no entry appears, and the entries of other
\* locales stay.
C34_FailedLoadKeepsCache ==
    [][\A locale \in CacheLocales, op \in {"load_locale_file", "load_locale_file(force_reload)"} :
         CacheCalled(op, locale) /\ result'.ret.kind = "raise"
         => /\ result'.ret.exc.type \in {"LocaleNotFoundError", "LocaleFileError"}
            /\ resolved' = <<locale>>
            /\ _cache' = _cache
            /\ _cache_timestamps' = _cache_timestamps]_vars

\* C34 happens: a load of "en-US" has ended in LocaleFileError on a malformed
\* file while the cache holds a stale entry of "en-US" with its document and an
\* entry of "en".
C34_Witness ==
    /\ result.op = "load_locale_file"
    /\ result.locale = EnUS
    /\ result.ret.kind = "raise"
    /\ result.ret.exc.type = "LocaleFileError"
    /\ resolved = <<EnUS>>
    /\ DOMAIN _cache = {EnUS, En}
    /\ _cache[EnUS] = DocA
    /\ ~Fresh(EnUS)
    /\ cache_timeout > 0


\* C35: once the constructor has returned, _current_locale is never None and
\* _fallback_locales is the chain _get_fallback_locales gives for
\* _current_locale and the default locale, whichever of the requested tag and
\* its fallbacks was committed; and every step that assigns the two commits a
\* locale whose load_locale_file returned in that step: its document is in
\* the cache the step leaves, and a load from the state before it returns.
C35_LocaleAndChainAgree ==
    /\ [](phase = "running"
          => /\ _current_locale # NoneTag
             /\ _fallback_locales = _get_fallback_locales(default_locale, _current_locale))
    /\ [][/\ engineVars' # engineVars
             => /\ result'.op \in {"__init__", "set_locale"}
                /\ result'.ret.kind = "return"
          /\ Ready /\ result'.op \in {"__init__", "set_locale"} /\ result'.ret.kind = "return"
             => /\ _current_locale' \in DOMAIN _cache'
                /\ InSeq(_current_locale', resolved') \/ _is_cache_valid(FM0, _current_locale')
                /\ load_locale_file(FM0, _current_locale', FALSE).ret.kind = "return"]_vars

\* C35 happens: set_locale("en-GB") has committed a fallback, and the chain is
\* the one of the committed locale, which is not the chain of "en-GB".
C35_Witness ==
    /\ phase = "running"
    /\ result.op = "set_locale"
    /\ result.locale = EnGB
    /\ result.ret.kind = "return"
    /\ _current_locale # EnGB
    /\ _fallback_locales = _get_fallback_locales(default_locale, _current_locale)
    /\ _fallback_locales # _get_fallback_locales(default_locale, EnGB)


\* C36, as stated: every callback invocation of a set_locale that runs beside
\* the set_locale calls of another thread passes, as old, the value of
\* _current_locale that its commit replaced.
C36_AsStated ==
    [][result.op = "set_locale:85" /\ result'.op = "set_locale"
       => \A i \in 1..Len(notified') : notified'[i].old = _current_locale]_vars

\* What the code gives instead: old is the value read at line 83, before the
\* loads.
C36_OldIsValueReadFirst ==
    [][result.op = "set_locale:85" /\ result'.op = "set_locale"
       => \A i \in 1..Len(notified') :
            /\ notified'[i].old = result.key
            /\ notified'[i].new = _current_locale']_vars

\* C36 happens: a set_locale("es-ES") read "en-US" as old_locale, another
\* thread's set_locale committed "en" meanwhile, and the first call, with a
\* callback registered, now stands before its load and commit.
C36_Witness ==
    /\ result.op = "set_locale:85"
    /\ result.locale = EsES
    /\ result.key = EnUS
    /\ _current_locale = En
    /\ _change_callbacks # <<>>
    /\ FlatJson(EsES) \in DOMAIN files


\* C37: a set_locale(locale) whose first candidate that does not end in
\* LocaleNotFoundError, among locale and its fallbacks in order, ends in
\* LocaleFileError, raises that LocaleFileError: it has resolved the candidates
\* up to that one and none after it, _current_locale and _fallback_locales are
\* as before, and no callback was invoked.
C37_SourceErrorEndsSetLocale ==
    [][\A locale \in Tags :
         Ready /\ result'.op = "set_locale" /\ result'.locale = locale
         => Let(<<locale>> \o _get_fallback_locales(default_locale, locale), LAMBDA cands :
              \A i \in 1..Len(cands) :
                 /\ load_locale_file(FM0, cands[i], FALSE).ret.kind = "raise"
                 /\ load_locale_file(FM0, cands[i], FALSE).ret.exc.type = "LocaleFileError"
                 /\ \A j \in 1..(i - 1) :
                      /\ load_locale_file(FM0, cands[j], FALSE).ret.kind = "raise"
                      /\ load_locale_file(FM0, cands[j], FALSE).ret.exc.type
                            = "LocaleNotFoundError"
                 => /\ result'.ret = load_locale_file(FM0, cands[i], FALSE).ret
                    /\ resolved' = SubSeq(cands, 1, i)
                    /\ UNCHANGED engineVars
                    /\ notified' = <<>>)]_vars

\* C37 happens: set_locale("en-GB") found no file of en-GB, met the malformed
\* file of "en" and raised, with a callback registered, the engine still on
\* en-US and the file of en-US, the next fallback, in place.
C37_Witness ==
    /\ result.op = "set_locale"
    /\ result.locale = EnGB
    /\ result.ret.kind = "raise"
    /\ result.ret.exc.type = "LocaleFileError"
    /\ resolved = <<EnGB, En>>
    /\ notified = <<>>
    /\ _change_callbacks # <<>>
    /\ _current_locale = EsES
    /\ InSeq(EnUS, _get_fallback_locales(default_locale, EnGB))
    /\ FlatJson(EnUS) \in DOMAIN files
    /\ files[FlatJson(EnUS)] = TextOf(DocA)


\* The locales a reading call may consult: the target and, when no locale was
\* given to get_text or has_key, the fallback list up to the first locale whose
\* lookup ends the call (a hit, or an error that is not LocaleNotFoundError).
Consulted(op, key, locale) ==
    LET target_locale == IF locale # NoneTag THEN locale ELSE get_current_locale
        chain == IF op \in {"get_text", "has_key"} /\ locale = NoneTag
                 THEN _fallback_locales ELSE <<>>
        Ends(l) == op # "get_metadata" /\ LookupIn(FM0, l, key).done
    IN  IF op = "get_current_locale" THEN {}
        ELSE {target_locale}
             \cup (IF Ends(target_locale) THEN {}
                   ELSE {chain[i] : i \in {n \in 1..Len(chain) :
                                             \A m \in 1..(n - 1) : ~Ends(chain[m])}})

\* C38: get_text, has_key, get_metadata and get_current_locale leave
\* _current_locale, _fallback_locales and the callback list as they were and
\* invoke no callback.  Of the cache they remove nothing, and an entry they add
\* or change is the entry of a locale they consulted, holding the document the
\* source gives and the time of the call.
C38_ReadsChangeOnlyCache ==
    [][Ready /\ result'.op \in {"get_text", "has_key", "get_metadata", "get_current_locale"}
       => /\ UNCHANGED <<engineVars, _change_callbacks, envVars, configVars>>
          /\ notified' = <<>>
          /\ DOMAIN _cache \subseteq DOMAIN _cache'
          /\ DOMAIN _cache_timestamps \subseteq DOMAIN _cache_timestamps'
          /\ \A l \in DOMAIN _cache' :
               l \notin DOMAIN _cache \/ _cache'[l] # _cache[l]
               \/ l \notin DOMAIN _cache_timestamps
               \/ _cache_timestamps'[l] # _cache_timestamps[l]
               => /\ l \in Consulted(result'.op, result'.key, result'.locale)
                  /\ Return(_cache'[l]) = _load_from_source(l)
                  /\ _cache_timestamps'[l] = now]_vars

\* C38 happens: on an engine on en-US with a callback, over an empty cache,
\* get_text found the key in "en", the first of the chain, and left entries of
\* en-US and en and none of en-GB, which is later in the chain and has a file.
C38_Witness ==
    /\ result.op = "get_text"
    /\ result.locale = NoneTag
    /\ result.key = KeyNestedMessage
    /\ result.ret = Return(Str("Nested message"))
    /\ _current_locale = EnUS
    /\ _change_callbacks # <<>>
    /\ cache_timeout = 1
    /\ DOMAIN _cache = {EnUS, En}
    /\ resolved = <<EnUS, En>>
    /\ InSeq(EnGB, _fallback_locales)
    /\ FlatJson(EnGB) \in DOMAIN files


\* C39: a get_text without locale never raises LocaleNotFoundError and leaves
\* _current_locale alone: it ends as the lookup over the current locale and the
\* fallback list ends once the locales whose source cannot be found at the time
\* of the call (and that have no valid entry) are taken out of them.
C39_UnresolvableIsMiss ==
    [][Ready /\ result'.op = "get_text" /\ result'.locale = NoneTag
       => /\ result'.ret.kind = "raise" => result'.ret.exc.type # "LocaleNotFoundError"
          /\ _current_locale' = _current_locale
          /\ LET Resolvable(l) == ~NotFound(l)
             IN Let(LookupInFallbacks(FM0, SelectSeq(<<get_current_locale>> \o _fallback_locales,
                                                     Resolvable), result'.key),
                    LAMBDA rest :
                      result'.ret = IF rest.done THEN rest.ret
                                    ELSE IF result'.default # None THEN Return(result'.default)
                                    ELSE Raise(TranslationKeyError(result'.key,
                                                                   get_current_locale)))]_vars

\* C39 happens: the engine is on en-US, whose file is gone and whose entry is
\* not in the cache; get_text read the source of en-US in vain, went on to
\* "en" and returned its text.
C39_Witness ==
    /\ result.op = "get_text"
    /\ result.locale = NoneTag
    /\ result.key = KeyGreeting
    /\ result.ret = Return(Str("Hello"))
    /\ _current_locale = EnUS
    /\ FlatJson(EnUS) \notin DOMAIN files
    /\ EnUS \notin DOMAIN _cache
    /\ Len(resolved) > 1
    /\ resolved[1] = EnUS
    /\ resolved[2] = En


\* C40: when, among the target and (without locale argument) the fallback list
\* in order, the first locale whose lookup ends a get_text ends it with a
\* LocaleFileError, the get_text raises that error, with or without default,
\* and has resolved no locale after that one; a has_key raises it too.  A
\* get_text that returns has resolved no locale whose source is malformed.
C40_SourceErrorEndsGetText ==
    [][Ready /\ result'.op \in {"get_text", "has_key"}
       => Let(<<IF result'.locale # NoneTag THEN result'.locale ELSE get_current_locale>>
              \o (IF result'.locale = NoneTag THEN _fallback_locales ELSE <<>>),
              LAMBDA cands :
                /\ \A i \in 1..Len(cands) :
                     /\ LookupIn(FM0, cands[i], result'.key).done
                     /\ LookupIn(FM0, cands[i], result'.key).ret.kind = "raise"
                     /\ \A j \in 1..(i - 1) : ~LookupIn(FM0, cands[j], result'.key).done
                     => /\ result'.ret = LookupIn(FM0, cands[i], result'.key).ret
                        /\ result'.ret.exc.type = "LocaleFileError"
                        /\ resolved' # <<>>
                        /\ resolved'[Len(resolved')] = cands[i]
                        /\ Range(resolved') \subseteq {cands[j] : j \in 1..i}
                /\ result'.op = "get_text" /\ result'.ret.kind = "return"
                   => \A l \in Range(resolved') :
                         _load_from_source(l).kind = "raise"
                         => _load_from_source(l).exc.type = "LocaleNotFoundError")]_vars

\* C40 happens: get_text with a default, on an engine on en-US with default
\* es-ES, missed the key in en-US, met the malformed file of "en" and raised
\* LocaleFileError, leaving es-ES, later in the list and with a file, unread.
C40_Witness ==
    /\ result.op = "get_text"
    /\ result.locale = NoneTag
    /\ result.default = DefaultText
    /\ result.ret.kind = "raise"
    /\ result.ret.exc.type = "LocaleFileError"
    /\ _current_locale = EnUS
    /\ resolved = <<EnUS, En>>
    /\ InSeq(EsES, _fallback_locales)
    /\ FlatJson(EsES) \in DOMAIN files
====
